---- MODULE Spec2Model ----
(***************************************************************************)
(* A model of the traffic analyzer's ingestion / persistence / detection   *)
(* pipeline: the dual-store synchronizer (database_manager.py), the two    *)
(* task queues and their workers, the rule engine's alert pipeline         *)
(* (traffic_analyzer.py) and the streaming decoder (traffic_capture.py).   *)
(*                                                                         *)
(* The module holds several specifications over one set of variables; each *)
(* specification drives one component and leaves the others unchanged.     *)
(***************************************************************************)
EXTENDS Integers, Sequences, FiniteSets, TLC

VARIABLES
    \* ---- time and the two stores (database_manager.py)
    now,            \* wall clock, seconds (time.time() / CURRENT_TIMESTAMP)
    cap,            \* capture store: table name -> set of rows
    capNextId,      \* capture store: table name -> next AUTOINCREMENT id
    ana,            \* analysis store as committed on disk: [tabs, rows]
    anaW,           \* analysis store as seen through analysis_conn (with uncommitted writes)
    anaTxn,         \* analysis_conn.in_transaction
    sync_lock,      \* holder of self.sync_lock, or "free"
    spc,            \* position of each caller of sync_databases
    todo,           \* all_tables still to be processed by each pass
    current_time,   \* local current_time of each pass
    last_sync_time, \* self.last_sync_time
    cpc,            \* position of clear_alerts (run by the query worker)
    nClears,        \* number of clear_alerts calls started
    queue_running,  \* self.queue_running
    \* ---- observation of passes (history, not program state)
    passSnap,       \* committed analysis store when the pass executed BEGIN
    passErr,        \* whether the pass met an error (row, table or pass level)
    passWritten,    \* <<table, row>> pairs the pass wrote to the analysis store
    passWarned,     \* tables whose index creation raised and was logged by the pass
    passClean,      \* no store was written by anyone else since the pass started
    settled,        \* an error-free, undisturbed pass completed and nothing changed since
    \* ---- the two task queues and their workers (database_manager.py)
    query_queue,    \* self.query_queue: tasks (query_func, args, kwargs, callback)
    alert_queue,    \* self.alert_queue: alerts (ip_address, alert_message, rule_name)
    alert_processor_running, \* self.alert_processor_running
    qpc,            \* position of _process_queue
    apc,            \* position of _process_alerts
    qcur,           \* the task _process_queue took from the queue
    acur,           \* the alert _process_alerts took from the queue
    nQueries,       \* number of queue_query calls so far (the next task's number)
    nAlerts,        \* number of queue_alert calls so far (the next alert's number)
    qruns,          \* how often each query task's operation was executed
    aruns,          \* how often each alert's insert was executed
    qdone,          \* query tasks marked task_done
    adone,          \* alerts marked task_done
    qfailed,        \* query tasks whose operation or callback raised
    afailed,        \* alerts whose insert raised
    qlog,           \* per query task: its callback, what its operation did, the callback's calls
    \* ---- the rule engine's alert pipeline (traffic_analyzer.py)
    false_positives, \* the false-positive set shared by the GUI and IPManager
    alerts_by_ip,   \* capture_engine.alerts_by_ip: ip -> set of alert texts
    enabled,        \* rule.enabled of each rule
    gpc,            \* position of analyze_traffic within the handling of one alert
    gcur,           \* the alert analyze_traffic is handling
    nGuiClears,     \* number of clear_alerts actions of the operator
    sentIds,        \* (ip, alert) -> alerts analyze_traffic enqueued for that pair
    dedupHits,      \* (ip, alert) pairs that analyze_traffic dropped as already seen
    fpProduced,     \* alerts enqueued though produced for an ip already marked false positive
    notified,       \* alerts shown by tray_app.show_alert_notification
    am_alerts,      \* calls of analysis_manager.add_alert
    handled,        \* the alert text analyze_traffic decided on last; tick flips at each decision
    \* ---- the streaming decoder (traffic_capture.py)
    running,        \* self.running
    nRead,          \* number of lines of the feed read so far
    buffer,         \* the local buffer of capture_packets, as a sequence of lines
    packet_count,   \* self.packet_count
    packet_batch_count, \* self.packet_batch_count
    connections,    \* the connections row of the feed's 4-tuple
    nProcessed,     \* how often each record of the feed was processed
    thread_exit,    \* how the loop of capture_packets was left by an exception, or "no"
    shapes,         \* the kind of data line read for each record of the feed
    nJunk,          \* number of lines read that belong to no record
    resetAt,        \* the position in the feed at the last buffer reset, or -1
    \* ---- connection keys (database_manager.py)
    key_args,       \* the addresses and ports a key was made from
    connection_key, \* the key, as a sequence of characters
    key_parsed,     \* what parse_connection_key returned for the key
    \* ---- capture_conn and a TransactionContext scope on it (database_manager.py)
    conn_rows,      \* the writes committed through the connection
    conn_pending,   \* the writes of the connection's open transaction
    in_transaction, \* connection.in_transaction
    tc_pc,          \* position of the thread that uses the scope: "out" or "body"
    cursor,         \* TransactionContext.cursor is open
    transaction_active, \* TransactionContext.transaction_active
    scope_writes,   \* the writes made in the running scope
    nWrites,        \* number of writes made through the connection
    propagated,     \* the last scope left with its body's exception passed on
    \* ---- connection health (database_manager.py)
    conn_handle,    \* self.capture_conn and self.analysis_conn: the connection each names
    timer_pending,  \* a threading.Timer for check_connection_health is scheduled
    nChecks,        \* number of health checks run
    nBreaks,        \* number of times a connection went bad
    last_check,     \* per store: the probe result and the reopening outcome of the last check
    \* ---- one analyze cycle over self.rules (traffic_analyzer.py)
    cycle_pc,       \* 0: no cycle runs; i: rule i of self.rules is next; Len + 1: after the loop
    results,        \* what happened to each rule in the running (or last) cycle
    nCycles,        \* number of cycles started
    wall,           \* time.time() as the thread of analyze_traffic reads it
    cycle_time,     \* local current_time of analyze_traffic
    last_alerts_update_time, \* self.last_alerts_update_time
    last_stats_update_time,  \* self.last_stats_update_time
    refreshes,      \* history: the times at which the alert displays were refreshed
    \* ---- close() (database_manager.py)
    close_pc,       \* "open", "joining" (flags cleared, joins pending), "returned"
    left_queued,    \* the ids of the tasks in each queue when close() cleared the flags
    \* ---- attribution of an alert to an address (traffic_analyzer.py)
    attributed,     \* the last alert text attributed and the address it was attributed to
    \* ---- the capture thread and its subprocess (traffic_capture.py)
    capture_thread, \* self.capture_thread: the thread it names, or 0
    tshark_process, \* self.tshark_process: the subprocess it names, or 0
    tpos,           \* position of each thread that runs capture_packets
    proc,           \* state of the subprocess each thread starts
    stop_pc,        \* position of stop_capture on the GUI thread
    nStarts,        \* number of threads started
    cycle_starts,   \* history: threads started since stop_capture was last called
    \* ---- InteractiveSessionRule (rules/interactive_session_rule.py)
    rule_time,      \* time.time() as the rule reads it
    last_check_time, \* self.last_check_time
    analysis_manager, \* self.analysis_manager is set
    rule_ret,       \* what the last call of analyze returned
    issued,         \* number of queries analyze has executed
    passed,         \* history: time and body outcome of the call that last passed the throttle
    nCalls,         \* number of calls of analyze
    \* ---- LargeDataTransferRule (traffic_analyzer.py)
    lt_rows,        \* rows of the connections table the rule queries
    threshold_kb,   \* self.threshold_kb
    lt_alerts,      \* what the last call of analyze returned
    lt_ret,         \* what the last call of update_param returned
    lt_op,          \* history: the last call made on the rule
    lt_calls,       \* number of calls made on the rule
    \* ---- the false-positive file (traffic_analyzer.py)
    fp_file,        \* the lines of db/false_positives.txt
    fp_saves,       \* history: calls of save_false_positives
    fp_ops,         \* number of mark and remove operations
    \* ---- analyze_traffic with the flags of its rules (traffic_analyzer.py)
    analysis_cursor, \* the cursor analyze_traffic takes for its rules
    invoked,        \* history: calls of analyze on each rule in the current cycle
    \* ---- clear_alerts beside a sync pass (database_manager.py)
    before_clear,   \* history: the alert rows in the stores when clear_alerts started
    clear_returned, \* history: clear_alerts has returned True
    \* ---- the connections table under add_packet and add_app_protocol
    conn_table,     \* the connections row of each key
    app_protocols,  \* the app_protocols row of each key
    pkt_calls,      \* history: add_packet calls for each key
    pkt_bytes,      \* history: sum of the lengths of those calls
    nPacketOps,     \* number of calls of the two methods
    \* ---- the loop of _sync_thread (database_manager.py)
    wake,           \* the time at which the thread's time.sleep(1) ends
    failed_at       \* current_time of the periodic pass that failed last, -1 after a commit

syncVars == <<now, cap, capNextId, ana, anaW, anaTxn, sync_lock, spc, todo,
              current_time, last_sync_time, cpc, nClears, queue_running,
              passSnap, passErr, passWritten, passWarned, passClean, settled>>

queueVars == <<query_queue, alert_queue, alert_processor_running, qpc, apc, qcur, acur,
               nQueries, nAlerts, qruns, aruns, qdone, adone, qfailed, afailed, qlog>>

alertVars == <<false_positives, alerts_by_ip, enabled, gpc, gcur, nGuiClears,
               sentIds, dedupHits, fpProduced, notified, am_alerts, handled>>

decoderVars == <<running, nRead, buffer, packet_count, packet_batch_count,
                 connections, nProcessed, thread_exit, shapes, nJunk, resetAt>>

keyVars == <<key_args, connection_key, key_parsed>>

txVars == <<conn_rows, conn_pending, in_transaction, tc_pc, cursor,
            transaction_active, scope_writes, nWrites, propagated>>

coreVars == <<syncVars, queueVars, alertVars, decoderVars>>

healthVars == <<conn_handle, timer_pending, nChecks, nBreaks, last_check>>

throttleVars == <<wall, cycle_time, last_alerts_update_time, last_stats_update_time, refreshes>>

cycleVars == <<cycle_pc, results, nCycles, throttleVars>>

shutVars == <<close_pc, left_queued>>

attrVars == <<attributed>>

retryVars == <<wake, failed_at>>

lifeVars == <<capture_thread, tshark_process, tpos, proc, stop_pc, nStarts,
              cycle_starts>>

ruleVars == <<rule_time, last_check_time, analysis_manager, rule_ret, issued, passed, nCalls>>

transferVars == <<lt_rows, threshold_kb, lt_alerts, lt_ret, lt_op, lt_calls>>

fpVars == <<fp_file, fp_saves, fp_ops>>

enabledVars == <<analysis_cursor, invoked>>

clearVars == <<before_clear, clear_returned>>

packetVars == <<conn_table, app_protocols, pkt_calls, pkt_bytes, nPacketOps>>

lateVars == <<lifeVars, ruleVars, transferVars, fpVars, enabledVars, clearVars, packetVars>>

baseVars == <<coreVars, keyVars, txVars, healthVars, cycleVars, shutVars, attrVars, retryVars>>

moreVars == <<attrVars, retryVars, lateVars>>

extraVars == <<keyVars, txVars, healthVars, cycleVars, shutVars, moreVars>>

vars == <<syncVars, queueVars, alertVars, decoderVars, extraVars>>

-----------------------------------------------------------------------------
(* Bounds of the model *)

StartTime == 1
MaxTime == 12
MaxRows == 2
MaxClears == 1
MaxTasks == 2
MaxPairs == 2
BatchSize == 2
MaxJunk == 2
MaxWrites == 3
MaxChecks == 2
MaxBreaks == 2
MaxCycles == 2
MaxIps == 3
MaxLegacy == 2
MaxStarts == 2
RuleStep == 100
MaxRuleTime == 900
MaxCalls == 3
MaxTransferRows == 2
MaxTransferCalls == 3
MaxFpOps == 3
MaxPacketOps == 4
WallStep == 10
MaxWall == 80

(* Program constants *)

SyncInterval == 10
ResolveLimit == 100
Epoch == 0
TailLen == 1000
BufferLimit == 10000000
AddPacketParams == 7
AddPacketArgs == 8
QueueMaxSize == 0

-----------------------------------------------------------------------------
(* Tables of the capture store, in sqlite_master (creation) order *)

TableOrder == <<"alerts", "arp_data", "tls_connections">>

Tables == {TableOrder[i] : i \in 1..Len(TableOrder)}

HasTimestamp(t) == t \in {"alerts", "arp_data", "tls_connections"}

SyncProcs == {"sync_thread", "on_demand"}

Maximum(S) == CHOOSE x \in S : \A y \in S : y <= x

EmptyRows == [t \in Tables |-> {}]

Timestamps(rows) == {r.ts : r \in rows}

Ids(rows) == {r.id : r \in rows}

(* A row: primary key, timestamp column, and the one content column that   *)
(* matters (tls_connections.server_name; "x" elsewhere).                   *)
Row(i, t, v) == [id |-> i, ts |-> t, val |-> v]

-----------------------------------------------------------------------------
(* A table left in the capture file by an earlier version of the field     *)
(* registry: the current _create_tables does not create it, it has no      *)
(* timestamp column, and no method of DatabaseManager writes to it.        *)
LegacyTable == "legacy"

(* The rows of a table without a timestamp column carry no timestamp. *)
LegacyRows(n) == {Row(i, Epoch, "x") : i \in 1..n}

(* State of the stores after DatabaseManager.__init__: _create_tables has  *)
(* run on both files (CREATE TABLE IF NOT EXISTS), so both hold the tables *)
(* of the schema, empty on a first run; the capture file may hold more     *)
(* tables (extra) with the rows they had; the workers are running.         *)
InitStores(extra, legacy) ==
    /\ now = StartTime
    /\ cap = [t \in Tables \cup extra |-> IF t \in Tables THEN {} ELSE legacy]
    /\ capNextId = [t \in Tables \cup extra |-> 1]
    /\ ana = [tabs |-> Tables, rows |-> [t \in Tables \cup extra |-> {}]]
    /\ anaW = [tabs |-> Tables, rows |-> [t \in Tables \cup extra |-> {}]]
    /\ anaTxn = FALSE
    /\ sync_lock = "free"
    /\ spc = [p \in SyncProcs |-> "idle"]
    /\ todo = [p \in SyncProcs |-> <<>>]
    /\ current_time = [p \in SyncProcs |-> 0]
    /\ last_sync_time = StartTime
    /\ cpc = "idle"
    /\ nClears = 0
    /\ queue_running = TRUE
    /\ passSnap = [p \in SyncProcs |-> [tabs |-> Tables, rows |-> EmptyRows]]
    /\ passErr = [p \in SyncProcs |-> FALSE]
    /\ passWritten = [p \in SyncProcs |-> {}]
    /\ passWarned = [p \in SyncProcs |-> {}]
    /\ passClean = [p \in SyncProcs |-> FALSE]
    /\ settled = FALSE

(* Initial state: both files hold the same tables, all empty. *)
InitSync == InitStores({}, {})

(* Any write to a store by somebody other than the running pass. *)
Disturb ==
    /\ passClean' = [p \in SyncProcs |-> FALSE]
    /\ settled' = FALSE

-----------------------------------------------------------------------------
(* Time *)

Tick(d) ==
    /\ now + d <= MaxTime
    /\ now' = now + d
    /\ UNCHANGED <<cap, capNextId, ana, anaW, anaTxn, sync_lock, spc, todo,
                   current_time, last_sync_time, cpc, nClears, queue_running,
                   passSnap, passErr, passWritten, passWarned, passClean, settled>>

-----------------------------------------------------------------------------
(* Writers of the capture store *)

(* Number of rows inserted into the capture store so far. *)
Inserted == (capNextId["alerts"] - 1) + (capNextId["arp_data"] - 1)
            + (capNextId["tls_connections"] - 1)

(* An INSERT with an AUTOINCREMENT id and the given timestamp and content. *)
InsertRow(t, v) ==
    /\ cap' = [cap EXCEPT ![t] = @ \cup {Row(capNextId[t], now, v)}]
    /\ capNextId' = [capNextId EXCEPT ![t] = @ + 1]
    /\ Disturb
    /\ UNCHANGED <<now, ana, anaW, anaTxn, sync_lock, spc, todo,
                   current_time, last_sync_time, cpc, nClears, queue_running,
                   passSnap, passErr, passWritten, passWarned>>

(* _process_alerts / add_alert: INSERT INTO alerts, timestamp defaulting to *)
(* CURRENT_TIMESTAMP.                                                       *)
InsertAlert == Inserted < MaxRows /\ InsertRow("alerts", "x")

(* add_arp_data *)
AddArpData == Inserted < MaxRows /\ InsertRow("arp_data", "x")

(* add_tls_connection: server_name is NULL or a host name *)
AddTlsConnection(server_name) ==
    Inserted < MaxRows /\ InsertRow("tls_connections", server_name)

-----------------------------------------------------------------------------
(* sync_databases *)

(* The cutoff when an empty destination defaults to the present time. *)
LastTimestampOrNow(rows) ==
    IF rows = {} THEN now ELSE Maximum(Timestamps(rows))

(* MAX(timestamp) of the destination table, "or 0" / "or '1970-01-01'" *)
LastTimestamp(rows) ==
    IF rows = {} THEN Epoch ELSE Maximum(Timestamps(rows))

(* The selection with >= in place of >. *)
NotOlderThan(rows, cutoff) == {r \in rows : r.ts >= cutoff}

(* SELECT * FROM t WHERE timestamp > ? *)
NewerThan(rows, cutoff) == {r \in rows : r.ts > cutoff}

(* The selection when arp_data is treated like any other table. *)
SelectByTimestamp(t, table_exists, dest) ==
    IF HasTimestamp(t) /\ table_exists
    THEN NewerThan(cap[t], LastTimestamp(dest))
    ELSE cap[t]

(* The rows a pass reads from capture table t (lines 773-821). *)
SelectRows(t, table_exists, dest) ==
    IF t = "arp_data" THEN cap[t]
    ELSE IF HasTimestamp(t) /\ table_exists
         THEN NewerThan(cap[t], LastTimestamp(dest))
         ELSE cap[t]

(* A plain INSERT that keeps the row already stored under the key. *)
InsertKeepingOld(rows, new) == rows \cup new

(* INSERT OR REPLACE of each row of new, keyed by primary key. *)
InsertOrReplace(rows, new) == {r \in rows : r.id \notin Ids(new)} \cup new

(* The observation of a pass ends with the pass. *)
Forget(p) ==
    /\ passSnap' = [passSnap EXCEPT ![p] = [tabs |-> Tables, rows |-> EmptyRows]]
    /\ passErr' = [passErr EXCEPT ![p] = FALSE]
    /\ passWritten' = [passWritten EXCEPT ![p] = {}]
    /\ passWarned' = [passWarned EXCEPT ![p] = {}]
    /\ current_time' = [current_time EXCEPT ![p] = 0]

(* with self.sync_lock: ... current_time = time.time().  The periodic      *)
(* thread calls sync_databases only when the interval has elapsed.         *)
IntervalElapsed == now - last_sync_time >= SyncInterval

SyncAcquire(p) ==
    /\ spc[p] = "idle"
    /\ p = "sync_thread" => (queue_running /\ IntervalElapsed)
    /\ sync_lock = "free"
    /\ sync_lock' = p
    /\ current_time' = [current_time EXCEPT ![p] = now]
    /\ spc' = [spc EXCEPT ![p] = "begin"]
    /\ passClean' = [passClean EXCEPT ![p] = TRUE]
    /\ UNCHANGED <<now, cap, capNextId, ana, anaW, anaTxn, todo, last_sync_time,
                   cpc, nClears, queue_running, passSnap, passErr, passWritten, passWarned, settled>>

(* The exception leaves the with block: the lock is released and the       *)
(* except clause of sync_databases runs next.                              *)
Raise(p) ==
    /\ sync_lock' = "free"
    /\ spc' = [spc EXCEPT ![p] = "except"]
    /\ passErr' = [passErr EXCEPT ![p] = TRUE]

(* SELECT name FROM sqlite_master WHERE type='table' AND name NOT LIKE     *)
(* 'sqlite_%' on the capture store.                                        *)
InCapture(t) == t \in DOMAIN cap

AllTables == SelectSeq(TableOrder \o <<LegacyTable>>, InCapture)

(* self.analysis_conn.execute("BEGIN TRANSACTION"): an OperationalError    *)
(* when the connection already has a transaction open.  Then all_tables is *)
(* read from the capture store's sqlite_master.                            *)
SyncBegin(p) ==
    /\ spc[p] = "begin"
    /\ IF anaTxn
       THEN /\ Raise(p)
            /\ UNCHANGED <<anaTxn, todo>>
       ELSE /\ anaTxn' = TRUE
            /\ spc' = [spc EXCEPT ![p] = "table"]
            /\ todo' = [todo EXCEPT ![p] = AllTables]
            /\ UNCHANGED <<sync_lock, passErr>>
    /\ passSnap' = [passSnap EXCEPT ![p] = ana]
    /\ UNCHANGED <<now, cap, capNextId, ana, anaW, current_time,
                   last_sync_time, cpc, nClears, queue_running,
                   passWritten, passWarned, passClean, settled>>

AfterTable(p) ==
    /\ todo' = [todo EXCEPT ![p] = Tail(@)]
    /\ spc' = [spc EXCEPT ![p] = IF Len(todo[p]) = 1 THEN "resolve" ELSE "table"]

(* One iteration of "for table_name in all_tables" that raises before it   *)
(* writes anything: the error is logged and the loop goes on (line 843).   *)
SyncTableError(p) ==
    /\ spc[p] = "table"
    /\ AfterTable(p)
    /\ passErr' = [passErr EXCEPT ![p] = TRUE]
    /\ UNCHANGED <<now, cap, capNextId, ana, anaW, anaTxn, sync_lock,
                   current_time, last_sync_time, cpc, nClears, queue_running,
                   passSnap, passWritten, passWarned, passClean, settled>>

(* An index statement that raises while a missing table is created leaves  *)
(* the iteration for the handler of the table.                             *)
IndexErrorLeaves(index_raises) == index_raises

(* "try: sync_analysis_cursor.execute(index_row[0]) except Exception":     *)
(* the error is logged as a warning and the iteration goes on.             *)
IndexErrorAborts(index_raises) == FALSE

(* One iteration of "for table_name in all_tables": create the table and   *)
(* its indices when it is missing, select the rows, clear arp_data,        *)
(* INSERT OR REPLACE each row; a row whose insert raises is logged and     *)
(* skipped (line 839).                                                     *)
SyncTableWith(p, failed, index_raises) ==
    /\ spc[p] = "table"
    /\ LET t == Head(todo[p])
           table_exists == t \in anaW.tabs
           aborted == ~table_exists /\ IndexErrorAborts(index_raises)
           dest == IF table_exists THEN anaW.rows[t] ELSE {}
           selected == IF aborted THEN {} ELSE SelectRows(t, table_exists, dest)
           kept == IF t = "arp_data" /\ table_exists THEN {} ELSE dest
           written == selected \ failed
       IN  /\ failed \subseteq selected
           /\ anaW' = [tabs |-> anaW.tabs \cup {t},
                       rows |-> [anaW.rows EXCEPT ![t] = InsertOrReplace(kept, written)]]
           /\ anaTxn' = (anaTxn \/ ~table_exists \/ selected # {}
                            \/ (t = "arp_data" /\ table_exists))
           /\ passWritten' = [passWritten EXCEPT ![p] = @ \cup {<<t, r>> : r \in written}]
           /\ passWarned' = [passWarned EXCEPT ![p] =
                                IF ~table_exists /\ index_raises THEN @ \cup {t} ELSE @]
           /\ passErr' = [passErr EXCEPT ![p] = @ \/ failed # {} \/ aborted]
    /\ AfterTable(p)
    /\ UNCHANGED <<now, cap, capNextId, ana, sync_lock, current_time,
                   last_sync_time, cpc, nClears, queue_running,
                   passSnap, passClean, settled>>

(* The iteration when every index statement succeeds. *)
SyncTable(p, failed) == SyncTableWith(p, failed, FALSE)

(* resolve_domain_names: for at most 100 tls_connections rows without a    *)
(* server name, a reverse lookup; where it answers, the name is stored.    *)
Unresolved(rows) == {r \in rows : r.val = "null"}

SyncResolve(p, answered) ==
    /\ spc[p] = "resolve"
    /\ "tls_connections" \in anaW.tabs
    /\ answered \subseteq Unresolved(anaW.rows["tls_connections"])
    /\ Cardinality(answered) <= ResolveLimit
    /\ anaW' = [anaW EXCEPT !.rows["tls_connections"] =
                    InsertOrReplace(@, {Row(r.id, r.ts, "host") : r \in answered})]
    /\ anaTxn' = (anaTxn \/ answered # {})
    /\ spc' = [spc EXCEPT ![p] = "commit"]
    /\ UNCHANGED <<now, cap, capNextId, ana, sync_lock, todo, current_time,
                   last_sync_time, cpc, nClears, queue_running,
                   passSnap, passErr, passWritten, passWarned, passClean, settled>>

(* self.analysis_conn.commit(); self.last_sync_time = current_time; the    *)
(* with block ends.                                                        *)
SyncCommit(p) ==
    /\ spc[p] = "commit"
    /\ ana' = anaW
    /\ anaTxn' = FALSE
    /\ last_sync_time' = current_time[p]
    /\ sync_lock' = "free"
    /\ spc' = [spc EXCEPT ![p] = "idle"]
    /\ settled' = (passClean[p] /\ ~passErr[p])
    /\ passClean' = [q \in SyncProcs |-> FALSE]
    /\ Forget(p)
    /\ UNCHANGED <<now, cap, capNextId, anaW, todo, cpc, nClears, queue_running>>

(* commit() raises (the store is busy or the disk fails). *)
SyncCommitError(p) ==
    /\ spc[p] = "commit"
    /\ Raise(p)
    /\ UNCHANGED <<now, cap, capNextId, ana, anaW, anaTxn, todo, current_time,
                   last_sync_time, cpc, nClears, queue_running,
                   passSnap, passWritten, passWarned, passClean, settled>>

(* except Exception: self.analysis_conn.rollback(); return 0 *)
SyncExcept(p) ==
    /\ spc[p] = "except"
    /\ anaW' = ana
    /\ anaTxn' = FALSE
    /\ spc' = [spc EXCEPT ![p] = "idle"]
    /\ Disturb
    /\ Forget(p)
    /\ UNCHANGED <<now, cap, capNextId, ana, sync_lock, todo,
                   last_sync_time, cpc, nClears, queue_running>>

-----------------------------------------------------------------------------
(* DatabaseManager.clear_alerts, executed by the query worker *)

(* DELETE FROM alerts on the capture store; commit *)
ClearCapture ==
    /\ cpc = "idle"
    /\ nClears < MaxClears
    /\ nClears' = nClears + 1
    /\ cap' = [cap EXCEPT !["alerts"] = {}]
    /\ cpc' = "delete"
    /\ Disturb
    /\ UNCHANGED <<now, capNextId, ana, anaW, anaTxn, sync_lock, spc, todo,
                   current_time, last_sync_time, queue_running,
                   passSnap, passErr, passWritten, passWarned>>

(* analysis_cursor.execute("DELETE FROM alerts"): opens a transaction when *)
(* none is open on analysis_conn.                                          *)
ClearAnalysisDelete ==
    /\ cpc = "delete"
    /\ anaW' = [anaW EXCEPT !.rows["alerts"] = {}]
    /\ anaTxn' = TRUE
    /\ cpc' = "commit"
    /\ Disturb
    /\ UNCHANGED <<now, cap, capNextId, ana, sync_lock, spc, todo,
                   current_time, last_sync_time, nClears, queue_running,
                   passSnap, passErr, passWritten, passWarned>>

(* self.analysis_conn.commit() *)
ClearAnalysisCommit ==
    /\ cpc = "commit"
    /\ ana' = anaW
    /\ anaTxn' = FALSE
    /\ cpc' = "idle"
    /\ Disturb
    /\ UNCHANGED <<now, cap, capNextId, anaW, sync_lock, spc, todo,
                   current_time, last_sync_time, nClears, queue_running,
                   passSnap, passErr, passWritten, passWarned>>

-----------------------------------------------------------------------------
(* The task queues: queue.Queue() objects, each with one worker thread *)

(* Queue.put: the item joins the tail. *)
Push(q, item) == <<item>> \o q

Enqueue(q, item) == Append(q, item)

(* Queue.get: the head is removed and returned. *)
Peek(q) == q

Dequeue(q) == Tail(q)

(* A count of executions, kept up to "more than once". *)
Counted(n) == IF n >= 2 THEN 2 ELSE n + 1

NoTask == [id |-> 0]

(* What query_func(...) can return. *)
Results == {"rows", "count"}

InitQueue ==
    /\ query_queue = <<>>
    /\ alert_queue = <<>>
    /\ alert_processor_running = TRUE
    /\ qpc = "test"
    /\ apc = "test"
    /\ qcur = NoTask
    /\ acur = NoTask
    /\ nQueries = 0
    /\ nAlerts = 0
    /\ qruns = [i \in 1..MaxTasks |-> 0]
    /\ aruns = [i \in 1..MaxTasks |-> 0]
    /\ qdone = {}
    /\ adone = {}
    /\ qfailed = {}
    /\ afailed = {}
    /\ qlog = [i \in 1..MaxTasks |-> [callback |-> FALSE, returned |-> "none", called |-> <<>>]]

(* A queue that holds one item at most. *)
HasRoomForOne(q) == Len(q) < 1

(* Queue.put blocks while the queue is full; queue.Queue() has maxsize 0,  *)
(* which means no limit.                                                   *)
HasRoom(q) == QueueMaxSize <= 0 \/ Len(q) < QueueMaxSize

(* queue_query(query_func, callback): callback is None or a function *)
QueueQuery(callback) ==
    /\ nQueries < MaxTasks
    /\ HasRoom(query_queue)
    /\ nQueries' = nQueries + 1
    /\ query_queue' = Enqueue(query_queue, [id |-> nQueries + 1, callback |-> callback])
    /\ qlog' = [qlog EXCEPT ![nQueries + 1].callback = callback]
    /\ UNCHANGED <<alert_queue, alert_processor_running, qpc, apc, qcur, acur,
                   nAlerts, qruns, aruns, qdone, adone, qfailed, afailed>>

(* queue_alert(ip_address, alert_message, rule_name) *)
QueueAlert(ip_address, alert_message, rule_name) ==
    /\ nAlerts < MaxTasks
    /\ HasRoom(alert_queue)
    /\ nAlerts' = nAlerts + 1
    /\ alert_queue' = Enqueue(alert_queue, [id |-> nAlerts + 1, ip |-> ip_address,
                                            msg |-> alert_message, rule |-> rule_name])
    /\ UNCHANGED <<query_queue, alert_processor_running, qpc, apc, qcur, acur,
                   nQueries, qruns, aruns, qdone, adone, qfailed, afailed, qlog>>

(* _process_queue: while self.queue_running held, the body is entered *)
ProcessQueueLoop ==
    /\ qpc = "test"
    /\ queue_running
    /\ qpc' = "get"
    /\ UNCHANGED <<query_queue, alert_queue, alert_processor_running, apc, qcur, acur,
                   nQueries, nAlerts, qruns, aruns, qdone, adone, qfailed, afailed, qlog>>
    /\ UNCHANGED syncVars

(* query_queue.get(timeout=0.5) raises queue.Empty: continue *)
ProcessQueueEmpty ==
    /\ qpc = "get"
    /\ query_queue = <<>>
    /\ qpc' = "test"
    /\ UNCHANGED <<query_queue, alert_queue, alert_processor_running, apc, qcur, acur,
                   nQueries, nAlerts, qruns, aruns, qdone, adone, qfailed, afailed, qlog>>
    /\ UNCHANGED syncVars

(* query_queue.get(timeout=0.5) returns a task *)
ProcessQueueGet ==
    /\ qpc = "get"
    /\ query_queue # <<>>
    /\ qcur' = Head(query_queue)
    /\ query_queue' = Dequeue(query_queue)
    /\ qpc' = "exec"
    /\ UNCHANGED <<alert_queue, alert_processor_running, apc, acur,
                   nQueries, nAlerts, qruns, aruns, qdone, adone, qfailed, afailed, qlog>>
    /\ UNCHANGED syncVars

(* while self.queue_running: the loop ends once the flag is cleared *)
ProcessQueueExit ==
    /\ qpc = "test"
    /\ ~queue_running
    /\ qpc' = "stopped"
    /\ UNCHANGED <<query_queue, alert_queue, alert_processor_running, apc, qcur, acur,
                   nQueries, nAlerts, qruns, aruns, qdone, adone, qfailed, afailed, qlog>>
    /\ UNCHANGED syncVars

(* A worker that calls the callback of a task whose operation raised. *)
CallsBackAlways(raises, callback) == callback

(* Whether callback(result) is reached: query_func returned, and          *)
(* "if callback:" holds.                                                   *)
CallsBack(raises, callback) == ~raises /\ callback

(* result = query_func(...): an exception is logged, and then  *)
(* the task is marked done; otherwise the callback, if any, is called.     *)
ProcessQueueExec(raises, result) ==
    /\ qpc = "exec"
    /\ qruns' = [qruns EXCEPT ![qcur.id] = Counted(@)]
    /\ qfailed' = IF raises THEN qfailed \cup {qcur.id} ELSE qfailed
    /\ qlog' = [qlog EXCEPT ![qcur.id].returned = IF raises THEN "raised" ELSE result]
    /\ IF CallsBack(raises, qcur.callback)
       THEN /\ qpc' = "callback"
            /\ qcur' = [id |-> qcur.id, callback |-> qcur.callback, result |-> result]
            /\ UNCHANGED qdone
       ELSE /\ qpc' = "test"
            /\ qcur' = NoTask
            /\ qdone' = qdone \cup {qcur.id}
    /\ UNCHANGED <<query_queue, alert_queue, alert_processor_running, apc, acur,
                   nQueries, nAlerts, aruns, adone, afailed>>
    /\ UNCHANGED syncVars

(* callback(result); an exception is logged; query_queue.task_done() *)
ProcessQueueCallback(raises) ==
    /\ qpc = "callback"
    /\ qlog' = [qlog EXCEPT ![qcur.id].called = Append(@, qcur.result)]
    /\ qfailed' = IF raises THEN qfailed \cup {qcur.id} ELSE qfailed
    /\ qpc' = "test"
    /\ qcur' = NoTask
    /\ qdone' = qdone \cup {qcur.id}
    /\ UNCHANGED <<query_queue, alert_queue, alert_processor_running, apc, acur,
                   nQueries, nAlerts, qruns, aruns, adone, afailed>>
    /\ UNCHANGED syncVars

(* _process_alerts: while self.alert_processor_running held *)
ProcessAlertsLoop ==
    /\ apc = "test"
    /\ alert_processor_running
    /\ apc' = "get"
    /\ UNCHANGED <<query_queue, alert_queue, alert_processor_running, qpc, qcur, acur,
                   nQueries, nAlerts, qruns, aruns, qdone, adone, qfailed, afailed, qlog>>
    /\ UNCHANGED syncVars

(* alert_queue.get(timeout=0.5) raises queue.Empty: continue *)
ProcessAlertsEmpty ==
    /\ apc = "get"
    /\ alert_queue = <<>>
    /\ apc' = "test"
    /\ UNCHANGED <<query_queue, alert_queue, alert_processor_running, qpc, qcur, acur,
                   nQueries, nAlerts, qruns, aruns, qdone, adone, qfailed, afailed, qlog>>
    /\ UNCHANGED syncVars

(* alert_queue.get(timeout=0.5) returns an alert *)
ProcessAlertsGet ==
    /\ apc = "get"
    /\ alert_queue # <<>>
    /\ acur' = Head(alert_queue)
    /\ alert_queue' = Dequeue(alert_queue)
    /\ apc' = "insert"
    /\ UNCHANGED <<query_queue, alert_processor_running, qpc, qcur,
                   nQueries, nAlerts, qruns, aruns, qdone, adone, qfailed, afailed, qlog>>
    /\ UNCHANGED syncVars

ProcessAlertsExit ==
    /\ apc = "test"
    /\ ~alert_processor_running
    /\ apc' = "stopped"
    /\ UNCHANGED <<query_queue, alert_queue, alert_processor_running, qpc, qcur, acur,
                   nQueries, nAlerts, qruns, aruns, qdone, adone, qfailed, afailed, qlog>>
    /\ UNCHANGED syncVars

(* with self.transaction(self.capture_conn): INSERT INTO alerts ...; an    *)
(* exception is logged; alert_queue.task_done()                            *)
ProcessAlertsInsert(raises) ==
    /\ apc = "insert"
    /\ aruns' = [aruns EXCEPT ![acur.id] = Counted(@)]
    /\ IF raises
       THEN /\ afailed' = afailed \cup {acur.id}
            /\ UNCHANGED syncVars
       ELSE /\ InsertRow("alerts", acur)
            /\ UNCHANGED afailed
    /\ apc' = "test"
    /\ acur' = NoTask
    /\ adone' = adone \cup {acur.id}
    /\ UNCHANGED <<query_queue, alert_queue, alert_processor_running, qpc, qcur,
                   nQueries, nAlerts, qruns, qdone, qfailed, qlog>>

InitShut ==
    /\ close_pc = "open"
    /\ left_queued = [query |-> {}, alert |-> {}]

(* close(): both flags are cleared *)
Close ==
    /\ queue_running \/ alert_processor_running
    /\ queue_running' = FALSE
    /\ alert_processor_running' = FALSE
    /\ close_pc' = "joining"
    /\ left_queued' = [query |-> {query_queue[k].id : k \in 1..Len(query_queue)},
                       alert |-> {alert_queue[k].id : k \in 1..Len(alert_queue)}]
    /\ UNCHANGED <<now, cap, capNextId, ana, anaW, anaTxn, sync_lock, spc, todo,
                   current_time, last_sync_time, cpc, nClears,
                   passSnap, passErr, passWritten, passWarned, passClean, settled>>
    /\ UNCHANGED <<query_queue, alert_queue, qpc, apc, qcur, acur,
                   nQueries, nAlerts, qruns, aruns, qdone, adone, qfailed, afailed, qlog>>

(* The query worker, with operations that return one of the given values. *)
QueryWorkerOn(values) ==
    \/ ProcessQueueLoop
    \/ ProcessQueueEmpty
    \/ ProcessQueueGet
    \/ ProcessQueueExit
    \/ \E raises \in BOOLEAN : \E result \in values : ProcessQueueExec(raises, result)
    \/ \E raises \in BOOLEAN : ProcessQueueCallback(raises)

(* Where only the order and the number of executions matter, every         *)
(* operation returns the same value.                                       *)
QueryWorker == QueryWorkerOn({"rows"})

AlertWorker ==
    \/ ProcessAlertsLoop
    \/ ProcessAlertsEmpty
    \/ ProcessAlertsGet
    \/ ProcessAlertsExit
    \/ \E raises \in BOOLEAN : ProcessAlertsInsert(raises)

-----------------------------------------------------------------------------
(* The alert pipeline: rules, analyze_traffic, false positives, clearing *)

IPs == {"10.0.0.1", "10.0.0.2"}

(* An alert text, as far as analyze_traffic reads it: the IPv4 addresses   *)
(* re.findall finds in it, in order, and the marker phrases it contains.   *)
Alert(phrases, ips) == [phrases |-> phrases, ips |-> ips]

Phrases == {"Malicious IP detected in connection from", "from Malicious IP",
            "from suspicious IP", "VirusTotal"}

Alerts ==
    { Alert({}, <<"10.0.0.1", "10.0.0.2">>),
      Alert({"Malicious IP detected in connection from"}, <<"10.0.0.1", "10.0.0.2">>),
      Alert({"VirusTotal"}, <<>>) }

(* A rule loaded from the rules directory has analysis_manager injected;   *)
(* the built-in rule has db_manager only.                                  *)
Rules == {"loaded", "builtin"}

HasAnalysisManager(rule) == rule = "loaded"

(* An attribution that takes the first address whatever the text says. *)
FirstAddress(alert) == IF Len(alert.ips) >= 1 THEN alert.ips[1] ELSE "None"

(* The IP an alert is attributed to (analyze_traffic, lines 1535-1560). *)
MaliciousIp(alert) ==
    IF Len(alert.ips) >= 2
    THEN IF "Malicious IP detected in connection from" \in alert.phrases THEN alert.ips[2]
         ELSE IF "from Malicious IP" \in alert.phrases \/ "from suspicious IP" \in alert.phrases
              THEN alert.ips[1]
         ELSE IF "VirusTotal" \in alert.phrases THEN alert.ips[2]
         ELSE alert.ips[1]
    ELSE IF Len(alert.ips) = 1 THEN alert.ips[1] ELSE "None"

(* 'malicious' in alert.lower() or 'virustotal' in alert.lower() *)
IsMalicious(alert) ==
    alert.phrases \cap {"Malicious IP detected in connection from", "from Malicious IP",
                        "VirusTotal"} # {}

(* alert not in self.capture_engine.alerts_by_ip[malicious_ip] *)
AlwaysNew(seen, alert) == TRUE

IsNew(seen, alert) == alert \notin seen

Pairs == IPs \X Alerts

NoAlert == [ip |-> "None"]

InitAlert ==
    /\ false_positives = {}
    /\ alerts_by_ip = [ip \in IPs |-> {}]
    /\ enabled = [r \in Rules \cup {"loaded_2"} |-> TRUE]
    /\ gpc = "idle"
    /\ gcur = NoAlert
    /\ nGuiClears = 0
    /\ sentIds = [pr \in Pairs |-> {}]
    /\ dedupHits = {}
    /\ fpProduced = {}
    /\ notified = {}
    /\ am_alerts = {}
    /\ handled = [alert |-> Alert({}, <<>>), tick |-> FALSE]

(* A check that lets every address through. *)
NeverSuppressed(ip, marked) == FALSE

(* malicious_ip in self.false_positives *)
Suppressed(ip, marked) == ip \in marked

(* analyze_traffic receives alert from an enabled rule: attribution, the   *)
(* test "if malicious_ip", the false-positive check ("continue") and the   *)
(* in-memory check.                                                        *)
AnalyzeAlert(rule, alert) ==
    /\ gpc = "idle"
    /\ enabled[rule]
    /\ handled' = [alert |-> alert, tick |-> ~handled.tick]
    /\ LET malicious_ip == MaliciousIp(alert)
       IN  IF malicious_ip = "None"
           THEN UNCHANGED <<gpc, gcur, dedupHits>>
           ELSE IF Suppressed(malicious_ip, false_positives)
           THEN UNCHANGED <<gpc, gcur, dedupHits>>
           ELSE IF IsNew(alerts_by_ip[malicious_ip], alert)
           THEN /\ gpc' = "add"
                /\ gcur' = [ip |-> malicious_ip, alert |-> alert, rule |-> rule]
                /\ UNCHANGED dedupHits
           ELSE /\ dedupHits' = dedupHits \cup {<<malicious_ip, alert>>}
                /\ UNCHANGED <<gpc, gcur>>
    /\ UNCHANGED <<false_positives, alerts_by_ip, enabled, nGuiClears,
                   sentIds, fpProduced, notified, am_alerts>>
    /\ UNCHANGED <<syncVars, queueVars>>

(* self.capture_engine.alerts_by_ip[malicious_ip].add(alert) *)
AnalyzeAdd ==
    /\ gpc = "add"
    /\ alerts_by_ip' = [alerts_by_ip EXCEPT ![gcur.ip] = @ \cup {gcur.alert}]
    /\ gpc' = "queue"
    /\ UNCHANGED <<false_positives, enabled, gcur, nGuiClears,
                   sentIds, dedupHits, fpProduced, notified, am_alerts, handled>>
    /\ UNCHANGED <<syncVars, queueVars>>

(* self.db_manager.queue_alert(malicious_ip, alert, rule.name); the tray   *)
(* notification for malicious traffic.                                     *)
AnalyzeQueue ==
    /\ gpc = "queue"
    /\ QueueAlert(gcur.ip, gcur.alert, gcur.rule)
    /\ sentIds' = [sentIds EXCEPT ![<<gcur.ip, gcur.alert>>] = @ \cup {nAlerts + 1}]
    /\ notified' = IF IsMalicious(gcur.alert) THEN notified \cup {nAlerts + 1} ELSE notified
    /\ gpc' = "idle"
    /\ gcur' = NoAlert
    /\ UNCHANGED <<false_positives, alerts_by_ip, enabled, nGuiClears,
                   dedupHits, fpProduced, am_alerts, handled>>
    /\ UNCHANGED syncVars

(* Rule.add_alert(ip_address, alert_message), called by an enabled rule    *)
(* from its analyze: through analysis_manager when it is injected, else    *)
(* straight to db_manager.queue_alert.                                     *)
RuleAddAlert(rule, ip_address, alert_message) ==
    /\ gpc = "idle"
    /\ enabled[rule]
    /\ IF HasAnalysisManager(rule)
       THEN /\ am_alerts' = am_alerts \cup {<<ip_address, alert_message, rule>>}
            /\ UNCHANGED <<fpProduced, queueVars>>
       ELSE /\ QueueAlert(ip_address, alert_message, rule)
            /\ fpProduced' = IF ip_address \in false_positives
                             THEN fpProduced \cup {nAlerts + 1} ELSE fpProduced
            /\ UNCHANGED am_alerts
    /\ UNCHANGED <<false_positives, alerts_by_ip, enabled, gpc, gcur, nGuiClears,
                   sentIds, dedupHits, notified, handled>>
    /\ UNCHANGED syncVars

(* IPManager.mark_as_false_positive(ip) *)
MarkAsFalsePositive(ip) ==
    /\ ip \notin false_positives
    /\ false_positives' = false_positives \cup {ip}
    /\ UNCHANGED <<alerts_by_ip, enabled, gpc, gcur, nGuiClears,
                   sentIds, dedupHits, fpProduced, notified, am_alerts, handled>>
    /\ UNCHANGED <<syncVars, queueVars>>

(* LiveCaptureGUI.clear_alerts: queue db_manager.clear_alerts with its     *)
(* callback, then clear the in-memory alerts.                              *)
GuiClearAlerts ==
    /\ nGuiClears < MaxClears
    /\ nGuiClears' = nGuiClears + 1
    /\ QueueQuery(TRUE)
    /\ alerts_by_ip' = [ip \in IPs |-> {}]
    /\ UNCHANGED <<false_positives, enabled, gpc, gcur,
                   sentIds, dedupHits, fpProduced, notified, am_alerts, handled>>
    /\ UNCHANGED syncVars

(* toggle_rule: rule.enabled = not rule.enabled *)
ToggleRule(rule) ==
    /\ enabled' = [enabled EXCEPT ![rule] = ~@]
    /\ UNCHANGED <<false_positives, alerts_by_ip, gpc, gcur, nGuiClears,
                   sentIds, dedupHits, fpProduced, notified, am_alerts, handled>>
    /\ UNCHANGED <<syncVars, queueVars>>

-----------------------------------------------------------------------------
(* The streaming decoder: capture_packets and extract_ek_objects *)

(* The feed is a sequence of record pairs: an index line, then the data    *)
(* line of the record.  A line of the buffer is its kind, the record it    *)
(* belongs to and its length in characters; "frag" is what is left of a    *)
(* line whose head was cut off.                                            *)
IndexLens == {60}

DataLens == {300, 900, 1200}

(* A line that is no JSON and belongs to no record. *)
JunkLens == {6000000}

(* The data line of a record: "data" is a packet with both IP addresses,   *)
(* "arp" an ARP packet without them, "odd" a JSON value whose layers are   *)
(* no mapping, "bad" a line that is not valid JSON.                        *)
DataKinds == {"data", "arp", "odd", "bad"}

DataLines == ({"data"} \X DataLens) \cup ({"arp", "odd", "bad"} \X {300})

Line(kind, rec, len) == [kind |-> kind, rec |-> rec, len |-> len]

(* The bytes on the wire of record rec: 100, 200, ... *)
PacketLength(rec) == 100 * rec

(* len(buffer): every line is followed by a newline *)
RECURSIVE BufLen(_)
BufLen(buf) == IF buf = <<>> THEN 0 ELSE buf[1].len + 1 + BufLen(Tail(buf))

(* buffer[-n:] *)
RECURSIVE LastChars(_, _)
LastChars(buf, n) ==
    IF buf = <<>> \/ n <= 0 THEN <<>>
    ELSE LET last == buf[Len(buf)]
             rest == SubSeq(buf, 1, Len(buf) - 1)
         IN  IF last.len + 1 <= n
             THEN Append(LastChars(rest, n - (last.len + 1)), last)
             ELSE IF n - 1 >= 1 THEN <<Line("frag", last.rec, n - 1)>> ELSE <<>>

(* buffer = buffer[-1000:] if len(buffer) > 1000 else buffer *)
KeepTail(buf) == IF BufLen(buf) > TailLen THEN LastChars(buf, TailLen) ELSE buf

(* line.startswith('{"index"') *)
IsIndexLine(line) == line.kind = "index"

(* json.loads(line) succeeds: a whole line of the feed is a JSON object,   *)
(* the tail of one is not.                                                 *)
ParsesAsJson(line) == line.kind \in {"index", "data", "arp", "odd"}

(* extract_ek_objects(buffer): the data lines found, from line i on *)
RECURSIVE ExtractFrom(_, _)
ExtractFrom(lines, i) ==
    IF i > Len(lines) THEN <<>>
    ELSE IF IsIndexLine(lines[i])
         THEN IF i + 1 <= Len(lines)
              THEN IF ParsesAsJson(lines[i + 1])
                   THEN <<lines[i + 1]>> \o ExtractFrom(lines, i + 2)
                   ELSE ExtractFrom(lines, i + 1)
              ELSE ExtractFrom(lines, i + 1)
         ELSE IF ParsesAsJson(lines[i])
              THEN <<lines[i]>> \o ExtractFrom(lines, i + 1)
              ELSE ExtractFrom(lines, i + 1)

extract_ek_objects(buf) == ExtractFrom(buf, 1)

NoConnection == [total_bytes |-> 0, packet_count |-> 0]

(* DatabaseManager.add_packet on the row of one connection key: UPDATE     *)
(* adds length and 1; when no row was updated (rowcount 0) the row is      *)
(* inserted with total_bytes = length and packet_count = 1.                *)
Upsert(conn, length) ==
    IF conn = NoConnection
    THEN [total_bytes |-> length, packet_count |-> 1]
    ELSE [total_bytes |-> conn.total_bytes + length,
          packet_count |-> conn.packet_count + 1]

(* db_manager.add_packet as process_packet_ek calls it: with more          *)
(* positional arguments than add_packet has parameters the call raises a   *)
(* TypeError, which process_packet_ek catches, and nothing is stored.      *)
add_packet(conn, length) ==
    IF AddPacketArgs > AddPacketParams
    THEN conn
    ELSE Upsert(conn, length)

(* process_packet_ek(packet_data): the value it returns.  Without layers   *)
(* it returns False; an exception (layers that are no mapping, the         *)
(* add_packet call) is caught and gives False; an ARP packet without IP    *)
(* addresses reaches the final "return True".                              *)
process_packet_ek(obj) ==
    IF obj.kind = "arp" THEN TRUE
    ELSE IF obj.kind = "data" THEN AddPacketArgs <= AddPacketParams
    ELSE FALSE

(* determine_packet_type(packet_data) raises: "layers" is looked up in a   *)
(* value that is no mapping.                                               *)
SampleRaises(obj) == obj.kind = "odd"

(* for packet_json in packet_objects: the sample (taken at random), the    *)
(* call of process_packet_ek, the hook, the counters.  Only               *)
(* json.JSONDecodeError is caught in the loop: any other exception leaves  *)
(* it.  The result is the connections row, the objects handed to           *)
(* process_packet_ek, the number of objects counted and how the loop was   *)
(* left.                                                                   *)
RECURSIVE HandleObjects(_, _, _, _)
HandleObjects(objects, conn, sampled, hook_raises) ==
    IF objects = <<>>
    THEN [conn |-> conn, handled |-> <<>>, counted |-> 0, exit |-> "no"]
    ELSE LET obj == objects[1]
             after == IF obj.kind = "data"
                      THEN add_packet(conn, PacketLength(obj.rec)) ELSE conn
         IN  IF sampled /\ SampleRaises(obj)
             THEN [conn |-> conn, handled |-> <<>>, counted |-> 0, exit |-> "record"]
             ELSE IF process_packet_ek(obj) /\ hook_raises
             THEN [conn |-> after, handled |-> <<obj>>, counted |-> 0, exit |-> "hook"]
             ELSE LET rest == HandleObjects(Tail(objects), after, sampled, hook_raises)
                  IN  [conn |-> rest.conn, handled |-> <<obj>> \o rest.handled,
                       counted |-> rest.counted + 1, exit |-> rest.exit]

(* How often record rec occurs among the objects. *)
Occurrences(objects, rec) ==
    Cardinality({k \in 1..Len(objects) : objects[k].rec = rec})

(* if len(buffer) > 10_000_000 *)
NeverOverflows(buf) == FALSE

Overflows(buf) == BufLen(buf) > BufferLimit

InitDecoder ==
    /\ running = FALSE
    /\ nRead = 0
    /\ buffer = <<>>
    /\ packet_count = 0
    /\ packet_batch_count = 0
    /\ connections = NoConnection
    /\ nProcessed = [rec \in 1..MaxPairs |-> 0]
    /\ thread_exit = "no"
    /\ shapes = [rec \in 1..MaxPairs |-> "none"]
    /\ nJunk = 0
    /\ resetAt = -1

(* start_capture: returns at once while self.running is set; otherwise the *)
(* counters are reset and a new thread runs capture_packets with an empty  *)
(* buffer.                                                                 *)
StartCapture ==
    /\ ~running
    /\ running' = TRUE
    /\ packet_count' = 0
    /\ packet_batch_count' = 0
    /\ buffer' = <<>>
    /\ thread_exit' = "no"
    /\ UNCHANGED <<nRead, connections, nProcessed, shapes, nJunk, resetAt>>

(* stop_capture *)
StopCapture ==
    /\ running
    /\ running' = FALSE
    /\ UNCHANGED <<nRead, buffer, packet_count, packet_batch_count, connections,
                   nProcessed, thread_exit, shapes, nJunk, resetAt>>

(* One round of the loop of capture_packets on a line of the feed: the     *)
(* line is appended, the objects of the buffer are extracted and handled,  *)
(* the buffer is cut, a full batch is committed, and a buffer over the     *)
(* limit is reset.  An exception that leaves the loop ends the thread      *)
(* (except Exception ... finally: the tshark process is terminated) and    *)
(* leaves self.running as it is.                                           *)
LoopRound(line, sampled, hook_raises) ==
    LET appended == Append(buffer, line)
        packet_objects == extract_ek_objects(appended)
        done == HandleObjects(packet_objects, connections, sampled, hook_raises)
        cut == IF packet_objects # <<>> THEN KeepTail(appended) ELSE appended
        batch == packet_batch_count + done.counted
    IN  /\ connections' = done.conn
        /\ nProcessed' = [r \in 1..MaxPairs |->
                             IF Occurrences(done.handled, r) = 0 THEN nProcessed[r]
                             ELSE IF Occurrences(done.handled, r) = 1
                                  THEN Counted(nProcessed[r]) ELSE 2]
        /\ packet_count' = packet_count + done.counted
        /\ thread_exit' = done.exit
        /\ IF done.exit # "no"
           THEN /\ packet_batch_count' = batch
                /\ buffer' = <<>>
                /\ UNCHANGED resetAt
           ELSE /\ packet_batch_count' =
                      IF packet_objects # <<>> /\ batch >= BatchSize THEN 0 ELSE batch
                /\ buffer' = IF Overflows(cut) THEN <<>> ELSE cut
                /\ resetAt' = IF Overflows(cut) THEN nRead ELSE resetAt

(* The next line of the feed is the index line or the data line of the     *)
(* next record.                                                            *)
ReadLine(kind, len, sampled, hook_raises) ==
    /\ running
    /\ thread_exit = "no"
    /\ nRead < 2 * MaxPairs
    /\ LET rec == (nRead \div 2) + 1
       IN  /\ IF nRead % 2 = 0
              THEN kind = "index" /\ len \in IndexLens
              ELSE <<kind, len>> \in DataLines
           /\ nRead' = nRead + 1
           /\ shapes' = IF nRead % 2 = 0 THEN shapes ELSE [shapes EXCEPT ![rec] = kind]
           /\ LoopRound(Line(kind, rec, len), sampled, hook_raises)
    /\ UNCHANGED <<running, nJunk>>

(* The next line of the feed is no JSON and belongs to no record. *)
ReadJunk(len) ==
    /\ running
    /\ thread_exit = "no"
    /\ nJunk < MaxJunk
    /\ len \in JunkLens
    /\ nJunk' = nJunk + 1
    /\ LoopRound(Line("junk", 0, len), FALSE, FALSE)
    /\ UNCHANGED <<running, nRead, shapes>>

-----------------------------------------------------------------------------
(* Connection keys: create_connection_key and parse_connection_key.  A     *)
(* string is a sequence of characters.                                     *)

Addresses ==
    { <<"1", "0", ".", "0", ".", "0", ".", "1">>,
      <<"1", "9", "2", ".", "1", "6", "8", ".", "1", ".", "2">>,
      <<":", ":", "1">>,
      <<"2", "0", "0", "1", ":", "d", "b", "8", ":", ":", "2">> }

Ports == {0, 443, 65535}

(* Port texts a key may carry: a number, "None", the empty text. *)
PortTexts == { <<"4", "4", "3">>, <<"N", "o", "n", "e">>, <<>> }

DigitChar(d) == <<"0", "1", "2", "3", "4", "5", "6", "7", "8", "9">>[d + 1]

IsDigit(c) == \E d \in 0..9 : DigitChar(d) = c

DigitVal(c) == CHOOSE d \in 0..9 : DigitChar(d) = c

(* str(n) of a non-negative integer, as the f-string formats a port *)
RECURSIVE Str(_)
Str(n) == IF n < 10 THEN <<DigitChar(n)>> ELSE Str(n \div 10) \o <<DigitChar(n % 10)>>

(* c in s *)
Contains(s, c) == \E i \in 1..Len(s) : s[i] = c

(* s.find(c): the index, from 0, of the first c, or -1 *)
Find(s, c) ==
    IF Contains(s, c)
    THEN (CHOOSE i \in 1..Len(s) : s[i] = c /\ \A j \in 1..(i - 1) : s[j] # c) - 1
    ELSE -1

(* s[a:b] and s[a:] for indices from 0 that are not negative *)
Slice(s, a, b) == SubSeq(s, a + 1, IF b > Len(s) THEN Len(s) ELSE b)

SliceFrom(s, a) == SubSeq(s, a + 1, Len(s))

(* s.split('->') *)
RECURSIVE SplitArrow(_)
SplitArrow(s) ==
    IF \E i \in 1..(Len(s) - 1) : s[i] = "-" /\ s[i + 1] = ">"
    THEN LET i == CHOOSE k \in 1..(Len(s) - 1) :
                      /\ s[k] = "-" /\ s[k + 1] = ">"
                      /\ \A j \in 1..(k - 1) : ~(s[j] = "-" /\ s[j + 1] = ">")
         IN  <<SubSeq(s, 1, i - 1)>> \o SplitArrow(SubSeq(s, i + 2, Len(s)))
    ELSE <<s>>

(* s.rsplit(':', 1) *)
RSplitColon(s) ==
    IF Contains(s, ":")
    THEN LET i == CHOOSE k \in 1..Len(s) : s[k] = ":" /\ \A j \in (k + 1)..Len(s) : s[j] # ":"
         IN  <<SubSeq(s, 1, i - 1), SubSeq(s, i + 1, Len(s))>>
    ELSE <<s>>

(* int(s) of a text of decimal digits; any other text of the model raises  *)
(* ValueError.                                                             *)
IsInt(s) == s # <<>> /\ \A i \in 1..Len(s) : IsDigit(s[i])

RECURSIVE IntOf(_)
IntOf(s) == IF s = <<>> THEN 0 ELSE 10 * IntOf(SubSeq(s, 1, Len(s) - 1)) + DigitVal(s[Len(s)])

(* f"[{ip}]:{port}" if ':' in ip else f"{ip}:{port}" *)
KeyPart(ip, port_str) ==
    IF Contains(ip, ":") THEN <<"[">> \o ip \o <<"]", ":">> \o port_str
    ELSE ip \o <<":">> \o port_str

(* f"{src_part}->{dst_part}" *)
KeyText(src_ip, dst_ip, src_port_str, dst_port_str) ==
    KeyPart(src_ip, src_port_str) \o <<"-", ">">> \o KeyPart(dst_ip, dst_port_str)

create_connection_key(src_ip, dst_ip, src_port, dst_port) ==
    KeyText(src_ip, dst_ip, Str(src_port), Str(dst_port))

(* The index at which the port text starts behind a bracketed address:     *)
(* part.find(']') + 2, to skip "]:".                                       *)
PortStartAtColon(part) == Find(part, "]") + 1

PortStart(part) == Find(part, "]") + 2

(* One side of a key: the address and the port text, or that the unpacking *)
(* of rsplit raised.                                                       *)
ParsePart(part) ==
    IF Contains(part, "[") /\ Contains(part, "]")
    THEN [ok |-> TRUE,
          ip |-> Slice(part, Find(part, "[") + 1, Find(part, "]")),
          port_str |-> SliceFrom(part, PortStart(part))]
    ELSE LET pieces == RSplitColon(part)
         IN  IF Len(pieces) = 2
             THEN [ok |-> TRUE, ip |-> pieces[1], port_str |-> pieces[2]]
             ELSE [ok |-> FALSE, ip |-> <<>>, port_str |-> <<>>]

(* return None, None, None, None *)
NoneKey == [none |-> TRUE]

parse_connection_key(key) ==
    LET parts == SplitArrow(key)
    IN  IF Len(parts) # 2 THEN NoneKey
        ELSE LET src == ParsePart(parts[1])
                 dst == ParsePart(parts[2])
                 ints == IsInt(src.port_str) /\ IsInt(dst.port_str)
             IN  IF ~src.ok \/ ~dst.ok THEN NoneKey
                 ELSE [none |-> FALSE, src_ip |-> src.ip, dst_ip |-> dst.ip,
                       src_port |-> IF ints THEN IntOf(src.port_str) ELSE 0,
                       dst_port |-> IF ints THEN IntOf(dst.port_str) ELSE 0]

NoKey == [made |-> FALSE]

InitKey ==
    /\ key_args = NoKey
    /\ connection_key = <<>>
    /\ key_parsed = NoKey

(* A caller makes the key of two addresses and two ports. *)
CreateKey(src_ip, dst_ip, src_port, dst_port) ==
    /\ key_args' = [made |-> TRUE, src_ip |-> src_ip, dst_ip |-> dst_ip,
                    src_port_str |-> Str(src_port), dst_port_str |-> Str(dst_port)]
    /\ connection_key' = create_connection_key(src_ip, dst_ip, src_port, dst_port)
    /\ key_parsed' = NoKey

(* A key of the same form whose port texts are not both numbers. *)
StoredKey(src_ip, dst_ip, src_port_str, dst_port_str) ==
    /\ key_args' = [made |-> TRUE, src_ip |-> src_ip, dst_ip |-> dst_ip,
                    src_port_str |-> src_port_str, dst_port_str |-> dst_port_str]
    /\ connection_key' = KeyText(src_ip, dst_ip, src_port_str, dst_port_str)
    /\ key_parsed' = NoKey

(* A caller parses the key. *)
ParseKey ==
    /\ key_args.made
    /\ key_parsed = NoKey
    /\ key_parsed' = [made |-> TRUE, result |-> parse_connection_key(connection_key)]
    /\ UNCHANGED <<key_args, connection_key>>

-----------------------------------------------------------------------------
(* The transaction helper: TransactionContext on capture_conn, a           *)
(* connection that the capture thread, the two workers and the GUI thread  *)
(* share (check_same_thread=False).                                        *)

InitTx ==
    /\ conn_rows = {}
    /\ conn_pending = {}
    /\ in_transaction = FALSE
    /\ tc_pc = "out"
    /\ cursor = FALSE
    /\ transaction_active = FALSE
    /\ scope_writes = {}
    /\ nWrites = 0
    /\ propagated = FALSE

(* connection.commit(): the open transaction's writes become durable *)
Commit ==
    /\ conn_rows' = conn_rows \cup conn_pending
    /\ conn_pending' = {}
    /\ in_transaction' = FALSE

(* connection.rollback(): the open transaction's writes are dropped *)
Rollback ==
    /\ conn_pending' = {}
    /\ in_transaction' = FALSE
    /\ UNCHANGED conn_rows

(* cursor.execute of an INSERT, UPDATE or DELETE: the write joins the open *)
(* transaction; sqlite3 opens one when there is none.                      *)
Execute ==
    /\ nWrites < MaxWrites
    /\ nWrites' = nWrites + 1
    /\ conn_pending' = conn_pending \cup {nWrites + 1}
    /\ in_transaction' = TRUE
    /\ UNCHANGED conn_rows

(* A helper that takes every scope for the one that began. *)
BeginsAlways(open) == TRUE

(* Whether BEGIN TRANSACTION succeeds: with a transaction open it raises   *)
(* "cannot start a transaction within a transaction".                      *)
Begins(open) == ~open

(* __enter__: the cursor is opened; BEGIN TRANSACTION starts a transaction *)
(* and sets transaction_active, or raises "cannot start a transaction      *)
(* within a transaction" and the open transaction is used.                 *)
TxEnter ==
    /\ tc_pc = "out"
    /\ tc_pc' = "body"
    /\ cursor' = TRUE
    /\ transaction_active' = Begins(in_transaction)
    /\ in_transaction' = TRUE
    /\ scope_writes' = {}
    /\ propagated' = FALSE
    /\ UNCHANGED <<conn_rows, conn_pending, nWrites>>

(* A statement of the body, through the cursor of the scope. *)
TxWrite ==
    /\ tc_pc = "body"
    /\ Execute
    /\ scope_writes' = scope_writes \cup {nWrites + 1}
    /\ UNCHANGED <<tc_pc, cursor, transaction_active, propagated>>

(* __exit__: a scope that began the transaction commits when the body left *)
(* cleanly and rolls back when it raised; the cursor is closed; False is   *)
(* returned, so that the exception goes on to the caller.                  *)
TxExit(raised) ==
    /\ tc_pc = "body"
    /\ tc_pc' = "out"
    /\ IF transaction_active
       THEN IF raised THEN Rollback ELSE Commit
       ELSE UNCHANGED <<conn_rows, conn_pending, in_transaction>>
    /\ cursor' = FALSE
    /\ propagated' = raised
    /\ UNCHANGED <<transaction_active, scope_writes, nWrites>>

(* Another thread writes through the connection without the helper, as     *)
(* add_arp_data and clear_alerts do: cursor.execute(...)                   *)
DirectWrite ==
    /\ Execute
    /\ UNCHANGED <<tc_pc, cursor, transaction_active, scope_writes, propagated>>

(* ... and self.capture_conn.commit(); commit_capture does the same. *)
CommitCapture ==
    /\ Commit
    /\ UNCHANGED <<tc_pc, cursor, transaction_active, scope_writes, nWrites, propagated>>

-----------------------------------------------------------------------------
(* Connection health: check_connection_health and _ensure_connection_valid *)
(* (the later definition in the class body is the one in force).           *)

Stores == {"capture", "analysis"}

(* The settings each connection is opened with (_setup_capture_db,         *)
(* _setup_analysis_db) and reopened with.                                  *)
Pragmas(store) ==
    IF store = "capture"
    THEN <<"journal_mode=WAL", "synchronous=NORMAL">>
    ELSE <<"journal_mode=WAL", "synchronous=NORMAL", "cache_size=10000">>

(* A connection: which one it is, whether SELECT 1 succeeds on it, and the *)
(* settings applied to it.                                                 *)
Connection(gen, valid, pragmas) == [gen |-> gen, valid |-> valid, pragmas |-> pragmas]

(* What reopening can do: sqlite3.connect raises, or it returns and the    *)
(* first "applied" PRAGMA statements succeed.                              *)
Outcomes(store) ==
    {[connected |-> FALSE, applied |-> 0]} \cup
    {[connected |-> TRUE, applied |-> k] : k \in 0..Len(Pragmas(store))}

Reopened(store, outcome) == outcome.connected /\ outcome.applied = Len(Pragmas(store))

InitHealth ==
    /\ conn_handle = [store \in Stores |-> Connection(1, TRUE, Pragmas(store))]
    /\ timer_pending = TRUE
    /\ nChecks = 0
    /\ nBreaks = 0
    /\ last_check = [store \in Stores |-> [probe_ok |-> TRUE, outcome |-> [connected |-> FALSE, applied |-> 0]]]

(* _ensure_connection_valid(conn): the connection the handle names         *)
(* afterwards.  The handle is assigned as soon as sqlite3.connect returns, *)
(* before the PRAGMA statements.                                           *)
KeepConnection(store, conn, outcome) == conn

EnsureConnectionValid(store, conn, outcome) ==
    IF conn.valid THEN conn
    ELSE IF ~outcome.connected THEN conn
    ELSE Connection(conn.gen + 1, TRUE, SubSeq(Pragmas(store), 1, outcome.applied))

(* check_connection_health, run by its timer: both connections are probed  *)
(* and the next check is scheduled if self.queue_running.                  *)
CheckConnectionHealth(outcome) ==
    /\ timer_pending
    /\ nChecks < MaxChecks
    /\ nChecks' = nChecks + 1
    /\ conn_handle' = [store \in Stores |->
                          EnsureConnectionValid(store, conn_handle[store], outcome[store])]
    /\ last_check' = [store \in Stores |->
                         [probe_ok |-> conn_handle[store].valid, outcome |-> outcome[store]]]
    /\ timer_pending' = queue_running
    /\ UNCHANGED nBreaks

(* A connection goes bad: SELECT 1 on it raises from now on. *)
BreakConnection(store) ==
    /\ nBreaks < MaxBreaks
    /\ conn_handle[store].valid
    /\ nBreaks' = nBreaks + 1
    /\ conn_handle' = [conn_handle EXCEPT ![store].valid = FALSE]
    /\ UNCHANGED <<timer_pending, nChecks, last_check>>

(* close(): each join(timeout=2) has returned, because the thread ended or *)
(* because the two seconds passed; both connections are closed.            *)
CloseReturn ==
    /\ close_pc = "joining"
    /\ close_pc' = "returned"
    /\ conn_handle' = [store \in Stores |-> [conn_handle[store] EXCEPT !.valid = FALSE]]
    /\ UNCHANGED <<left_queued, timer_pending, nChecks, nBreaks, last_check>>

-----------------------------------------------------------------------------
(* One analyze cycle: the loop of analyze_traffic over self.rules *)

RuleList == <<"builtin", "loaded", "loaded_2">>

LoadedRules == {RuleList[i] : i \in 1..Len(RuleList)}

(* What the turn of an enabled rule can be: analyze returns nothing,       *)
(* returns alerts that are all handled, raises, or the handling of one of  *)
(* its alerts raises.                                                      *)
RuleOutcomes == {"none", "alerts", "analyze_raises", "handling_raises"}

Raised(outcome) == outcome \in {"analyze_raises", "handling_raises"}

MinUpdateInterval == 30

StatsUpdateInterval == 30

(* LiveCaptureGUI.__init__ sets both update times to 0; time.time() is     *)
(* more than one interval after the epoch.                                 *)
InitCycle ==
    /\ cycle_pc = 0
    /\ results = [i \in 1..Len(RuleList) |-> "idle"]
    /\ nCycles = 0
    /\ wall = MinUpdateInterval
    /\ cycle_time = 0
    /\ last_alerts_update_time = 0
    /\ last_stats_update_time = 0
    /\ refreshes = <<>>

(* Time passes, also while a cycle runs its rules. *)
TickWall ==
    /\ wall + WallStep <= MaxWall
    /\ wall' = wall + WallStep
    /\ UNCHANGED <<cycle_pc, results, nCycles, cycle_time, last_alerts_update_time,
                   last_stats_update_time, refreshes>>

(* analyze_traffic is called: the cursor is taken, current_time is read    *)
(* and the loop starts.                                                    *)
StartCycle ==
    /\ cycle_pc = 0
    /\ nCycles < MaxCycles
    /\ nCycles' = nCycles + 1
    /\ cycle_pc' = 1
    /\ results' = [i \in 1..Len(RuleList) |-> "idle"]
    /\ cycle_time' = wall
    /\ UNCHANGED <<wall, last_alerts_update_time, last_stats_update_time, refreshes>>

(* A loop whose exceptions are caught outside it ends at the first one. *)
LeaveLoop(i, outcome) == IF Raised(outcome) THEN Len(RuleList) + 1 ELSE i + 1

(* Where the loop goes on after the turn of rule i: an exception is caught *)
(* by the except clause inside the loop, and the next rule follows.        *)
AfterRule(i, outcome) == i + 1

(* The turn of rule cycle_pc: skipped when rule.enabled is false, else     *)
(* rule.analyze(analysis_cursor) and the handling of its alerts.           *)
RunRule(is_enabled, outcome) ==
    /\ cycle_pc \in 1..Len(RuleList)
    /\ results' = [results EXCEPT ![cycle_pc] = IF is_enabled THEN outcome ELSE "skipped"]
    /\ cycle_pc' = IF is_enabled THEN AfterRule(cycle_pc, outcome) ELSE cycle_pc + 1
    /\ UNCHANGED <<nCycles, throttleVars>>

(* Some rule of the cycle returned alerts. *)
ReturnedAlerts == \E i \in 1..Len(RuleList) : results[i] \in {"alerts", "handling_raises"}

(* if time_since_last_update >= min_update_interval *)
Due(elapsed) == elapsed >= MinUpdateInterval

(* finally: analysis_cursor.close().  With alerts in the list (appended:   *)
(* an alert of a false-positive address is not appended) and the interval  *)
(* elapsed since last_alerts_update_time, the time is reset and the four   *)
(* alert displays are refreshed; then the status bar, on its own interval; *)
(* analyze_traffic returns.                                                *)
EndCycle(appended) ==
    /\ cycle_pc = Len(RuleList) + 1
    /\ appended => ReturnedAlerts
    /\ cycle_pc' = 0
    /\ IF appended /\ Due(cycle_time - last_alerts_update_time)
       THEN /\ last_alerts_update_time' = cycle_time
            /\ refreshes' = Append(refreshes, wall)
       ELSE UNCHANGED <<last_alerts_update_time, refreshes>>
    /\ last_stats_update_time' =
          IF cycle_time - last_stats_update_time >= StatsUpdateInterval
          THEN cycle_time ELSE last_stats_update_time
    /\ UNCHANGED <<results, nCycles, wall, cycle_time>>

-----------------------------------------------------------------------------
(* Attribution of alert texts: the first lines of the loop over a rule's   *)
(* alerts in analyze_traffic, applied to texts of every shape.             *)

(* The sequences of at most n addresses. *)
IpSeqs(n) == UNION {[1..k -> IPs] : k \in 0..n}

Texts == {Alert(phrases, ips) : phrases \in SUBSET Phrases, ips \in IpSeqs(MaxIps)}

NoAttribution == [ip |-> "None", alert |-> Alert({}, <<>>), done |-> FALSE]

InitAttr == attributed = NoAttribution

(* ip_matches = re.findall(...); malicious_ip = ... *)
Attribute(alert) ==
    attributed' = [ip |-> MaliciousIp(alert), alert |-> alert, done |-> TRUE]

-----------------------------------------------------------------------------
(* The periodic thread: the loop of _sync_thread around sync_databases *)

PollInterval == 1

InitRetry ==
    /\ wake = StartTime
    /\ failed_at = -1

(* The loop body when the thread is awake: sync_databases() is called if   *)
(* the interval has elapsed since last_sync_time; else time.sleep(1).      *)
SyncThreadPoll ==
    /\ now >= wake
    /\ \/ /\ SyncAcquire("sync_thread")
          /\ UNCHANGED retryVars
       \/ /\ spc["sync_thread"] = "idle"
          /\ queue_running
          /\ ~IntervalElapsed
          /\ wake' = now + PollInterval
          /\ UNCHANGED <<failed_at, syncVars>>

(* The pass of the periodic thread, and a commit that raises. *)
SyncThreadPass ==
    /\ \/ SyncBegin("sync_thread")
       \/ SyncTable("sync_thread", {})
       \/ SyncResolve("sync_thread", {})
       \/ SyncCommitError("sync_thread")
    /\ UNCHANGED retryVars

(* sync_databases returns, after its commit or after the rollback of its   *)
(* except clause; time.sleep(1) follows.                                   *)
SyncThreadReturn ==
    /\ \/ SyncCommit("sync_thread") /\ failed_at' = -1
       \/ SyncExcept("sync_thread") /\ failed_at' = current_time["sync_thread"]
    /\ wake' = now + PollInterval

-----------------------------------------------------------------------------
(* The life of a capture: start_capture and stop_capture on the GUI thread, *)
(* the threads that run capture_packets, and the tshark subprocess each of  *)
(* them starts.  Thread k starts subprocess k.                              *)

Threads == 1..MaxStarts

InitLife ==
    /\ capture_thread = 0
    /\ tshark_process = 0
    /\ tpos = [k \in Threads |-> "none"]
    /\ proc = [k \in Threads |-> "none"]
    /\ stop_pc = "idle"
    /\ nStarts = 0
    /\ cycle_starts = 0

(* process.terminate() *)
Terminate(procs, k) ==
    [j \in Threads |-> IF j = k /\ procs[j] = "running" THEN "terminated" ELSE procs[j]]

(* start_capture while self.running is set: "if self.running: return" *)
StartCaptureAgain ==
    /\ stop_pc = "idle"
    /\ running
    /\ UNCHANGED <<decoderVars, lifeVars>>

(* start_capture while self.running is clear: the flag is set, the         *)
(* counters are reset and a new thread is started.                         *)
StartCaptureThread ==
    /\ stop_pc = "idle"
    /\ nStarts < MaxStarts
    /\ StartCapture
    /\ nStarts' = nStarts + 1
    /\ capture_thread' = nStarts + 1
    /\ tpos' = [tpos EXCEPT ![nStarts + 1] = "popen"]
    /\ cycle_starts' = cycle_starts + 1
    /\ UNCHANGED <<tshark_process, proc, stop_pc>>

(* stop_capture: self.running = False *)
StopCaptureFlag ==
    /\ stop_pc = "idle"
    /\ StopCapture
    /\ stop_pc' = "terminate"
    /\ cycle_starts' = 0
    /\ UNCHANGED <<capture_thread, tshark_process, tpos, proc, nStarts>>

(* stop_capture: if self.tshark_process: terminate it and clear the handle *)
StopCaptureTerminate ==
    /\ stop_pc = "terminate"
    /\ stop_pc' = "join"
    /\ proc' = IF tshark_process # 0 THEN Terminate(proc, tshark_process) ELSE proc
    /\ tshark_process' = 0
    /\ UNCHANGED <<decoderVars, capture_thread, tpos, nStarts, cycle_starts>>

(* stop_capture: self.capture_thread.join(timeout=5) returns, because the  *)
(* thread ended or because five seconds passed; the reference is cleared.  *)
StopCaptureJoin ==
    /\ stop_pc = "join"
    /\ stop_pc' = "idle"
    /\ capture_thread' = 0
    /\ UNCHANGED <<decoderVars, tshark_process, tpos, proc, nStarts, cycle_starts>>

(* capture_packets: subprocess.Popen(cmd, ...) is assigned to              *)
(* self.tshark_process; when it raises, the except clause and the finally  *)
(* clause follow.                                                          *)
ThreadPopen(k, raises) ==
    /\ tpos[k] = "popen"
    /\ IF raises
       THEN /\ tpos' = [tpos EXCEPT ![k] = "finally"]
            /\ UNCHANGED <<tshark_process, proc>>
       ELSE /\ tpos' = [tpos EXCEPT ![k] = "reading"]
            /\ tshark_process' = k
            /\ proc' = [proc EXCEPT ![k] = "running"]
    /\ UNCHANGED <<decoderVars, capture_thread, stop_pc, nStarts, cycle_starts>>

(* The loop reads a line of its pipe (one the subprocess wrote before it   *)
(* ended, possibly) while self.running is clear: break.  (With the flag    *)
(* set the line is decoded and the loop goes on.)                          *)
ThreadBreak(k) ==
    /\ tpos[k] = "reading"
    /\ ~running
    /\ tpos' = [tpos EXCEPT ![k] = "after"]
    /\ UNCHANGED <<decoderVars, capture_thread, tshark_process, proc, stop_pc, nStarts,
                   cycle_starts>>

(* readline returns b'' because the subprocess has ended: the loop ends. *)
ThreadEndOfFeed(k) ==
    /\ tpos[k] = "reading"
    /\ proc[k] \in {"terminated", "dead"}
    /\ tpos' = [tpos EXCEPT ![k] = "after"]
    /\ UNCHANGED <<decoderVars, capture_thread, tshark_process, proc, stop_pc, nStarts,
                   cycle_starts>>

(* The handling of a line raises: except Exception, then finally. *)
ThreadRaise(k) ==
    /\ tpos[k] = "reading"
    /\ tpos' = [tpos EXCEPT ![k] = "finally"]
    /\ UNCHANGED <<decoderVars, capture_thread, tshark_process, proc, stop_pc, nStarts,
                   cycle_starts>>

(* After the loop: if self.tshark_process: errors = ...stderr.read(), which *)
(* returns when the subprocess the handle names has ended.                  *)
ThreadReadErrors(k) ==
    /\ tpos[k] = "after"
    /\ tshark_process # 0 => proc[tshark_process] # "running"
    /\ tpos' = [tpos EXCEPT ![k] = "finally"]
    /\ UNCHANGED <<decoderVars, capture_thread, tshark_process, proc, stop_pc, nStarts,
                   cycle_starts>>

(* finally: if self.tshark_process: terminate it and clear the handle.     *)
(* self.running is left as it is.                                          *)
ThreadFinally(k) ==
    /\ tpos[k] = "finally"
    /\ tpos' = [tpos EXCEPT ![k] = "done"]
    /\ proc' = IF tshark_process # 0 THEN Terminate(proc, tshark_process) ELSE proc
    /\ tshark_process' = 0
    /\ UNCHANGED <<decoderVars, capture_thread, stop_pc, nStarts, cycle_starts>>

(* The subprocess ends by itself. *)
FeedEnds(k) ==
    /\ proc[k] = "running"
    /\ proc' = [proc EXCEPT ![k] = "dead"]
    /\ UNCHANGED <<decoderVars, capture_thread, tshark_process, tpos, stop_pc, nStarts,
                   cycle_starts>>

CaptureThread(k) ==
    \/ \E raises \in BOOLEAN : ThreadPopen(k, raises)
    \/ ThreadBreak(k)
    \/ ThreadEndOfFeed(k)
    \/ ThreadRaise(k)
    \/ ThreadReadErrors(k)
    \/ ThreadFinally(k)

-----------------------------------------------------------------------------
(* InteractiveSessionRule.analyze and its throttle (rules/interactive_session_rule.py) *)

CheckInterval == 300

(* What the body of analyze can do once the throttle is passed: return no  *)
(* alert, return alerts, or raise (the except clause returns the message). *)
BodyOutcomes == {"nothing", "alerts", "raises"}

(* __init__: last_check_time = 0, analysis_manager = None; time.time() is  *)
(* more than one check interval after the epoch.                           *)
InitRule ==
    /\ rule_time = CheckInterval
    /\ last_check_time = 0
    /\ analysis_manager = FALSE
    /\ rule_ret = "none"
    /\ issued = 0
    /\ passed = [at |-> -1, outcome |-> "none"]
    /\ nCalls = 0

(* Time passes between two calls of analyze. *)
TickRule ==
    /\ rule_time + RuleStep <= MaxRuleTime
    /\ rule_time' = rule_time + RuleStep
    /\ UNCHANGED <<last_check_time, analysis_manager, rule_ret, issued, passed, nCalls>>

(* A throttle that lets every call through. *)
NeverThrottled(elapsed) == FALSE

(* if current_time - self.last_check_time < self.check_interval *)
Throttled(elapsed) == elapsed < CheckInterval

(* analyze(db_cursor): the analysis manager is linked when db_manager has  *)
(* one (available), and without one an error text is returned; a throttled *)
(* call returns []; any other call sets last_check_time, runs its query    *)
(* and returns its alerts, or the error message when the body raised.      *)
Analyze(available, outcome) ==
    /\ nCalls < MaxCalls
    /\ nCalls' = nCalls + 1
    /\ analysis_manager' = (analysis_manager \/ available)
    /\ IF ~analysis_manager'
       THEN /\ rule_ret' = "manager_error"
            /\ UNCHANGED <<last_check_time, issued, passed>>
       ELSE IF Throttled(rule_time - last_check_time)
       THEN /\ rule_ret' = "empty"
            /\ UNCHANGED <<last_check_time, issued, passed>>
       ELSE /\ last_check_time' = rule_time
            /\ issued' = issued + 1
            /\ passed' = [at |-> rule_time, outcome |-> outcome]
            /\ rule_ret' = CASE outcome = "nothing" -> "empty"
                             [] outcome = "alerts" -> "alerts"
                             [] outcome = "raises" -> "error"
    /\ UNCHANGED rule_time

-----------------------------------------------------------------------------
(* LargeDataTransferRule (traffic_analyzer.py, RuleLoader._add_default_rules) *)

DefaultThresholdKb == 5000

(* total_bytes values on both sides of the thresholds 1000 KB and 5000 KB. *)
ByteValues == {1024000, 1024001, 5120000, 5120001, 6000000}

ThresholdValues == {1000, DefaultThresholdKb}

ParamNames == {"threshold_kb", "check_interval"}

(* Rows (src_ip, dst_ip, total_bytes) of the connections table. *)
TransferRows == [src_ip : IPs, dst_ip : IPs, total_bytes : ByteValues]

(* f"{total_bytes/1024/1024:.2f}" in hundredths of a MB, rounded to the    *)
(* nearest (none of ByteValues lies halfway between two hundredths).       *)
FormatMB(total_bytes) == (total_bytes * 200 + 1048576) \div (2 * 1048576)

(* f"ALERT: Large data transfer from {src_ip} to {dst_ip} - {..:.2f} MB" *)
TransferAlert(row) ==
    [src_ip |-> row.src_ip, dst_ip |-> row.dst_ip, mb |-> FormatMB(row.total_bytes)]

(* A comparison that also selects a row lying exactly on the threshold. *)
ReachesThreshold(total_bytes, kb) == total_bytes >= kb * 1024

(* WHERE total_bytes > ?  with the parameter self.threshold_kb * 1024 *)
ExceedsThreshold(total_bytes, kb) == total_bytes > kb * 1024

RECURSIVE MapAlerts(_)
MapAlerts(rows) ==
    IF rows = <<>> THEN <<>> ELSE <<TransferAlert(Head(rows))>> \o MapAlerts(Tail(rows))

(* __init__: threshold_kb = 5000.  The connections table starts empty. *)
InitTransfer ==
    /\ lt_rows = <<>>
    /\ threshold_kb = DefaultThresholdKb
    /\ lt_alerts = <<>>
    /\ lt_ret = "none"
    /\ lt_op = "none"
    /\ lt_calls = 0

(* A connection row reaches the connections table of the analysis store. *)
ConnectionRowArrives(row) ==
    /\ Len(lt_rows) < MaxTransferRows
    /\ lt_rows' = Append(lt_rows, row)
    /\ UNCHANGED <<threshold_kb, lt_alerts, lt_ret, lt_op, lt_calls>>

(* analyze(db_cursor): the rows selected by the query, one alert for each; *)
(* when the query raises the error is logged and the alerts built so far,  *)
(* none, are returned.                                                     *)
LargeTransferAnalyze(raises) ==
    /\ lt_calls < MaxTransferCalls
    /\ lt_calls' = lt_calls + 1
    /\ lt_op' = IF raises THEN "analyze_raised" ELSE "analyze"
    /\ lt_alerts' =
         IF raises THEN <<>>
         ELSE LET Large(row) == ExceedsThreshold(row.total_bytes, threshold_kb)
              IN  MapAlerts(SelectSeq(lt_rows, Large))
    /\ UNCHANGED <<lt_rows, threshold_kb, lt_ret>>

(* update_param(param_name, value); value is the integer of the IntVar of  *)
(* the parameter editor.                                                   *)
LargeTransferUpdateParam(param_name, value) ==
    /\ lt_calls < MaxTransferCalls
    /\ lt_calls' = lt_calls + 1
    /\ lt_op' = "update_param"
    /\ IF param_name = "threshold_kb"
       THEN threshold_kb' = value /\ lt_ret' = "True"
       ELSE threshold_kb' = threshold_kb /\ lt_ret' = "False"
    /\ UNCHANGED <<lt_rows, lt_alerts>>

-----------------------------------------------------------------------------
(* The false-positive list and its file (traffic_analyzer.py: IPManager,   *)
(* LiveCaptureGUI.load_false_positives, remove_false_positive)             *)

(* A text is the sequence of its pieces: an address, a blank or a hash.    *)
(* The texts the entry "Selected IP" can hold when "Mark as False          *)
(* Positive" is pressed: nothing, an address, an address followed by a     *)
(* blank, a text beginning with a hash.                                    *)
FpTexts == {<<>>, <<"10.0.0.1">>, <<"10.0.0.2">>, <<"10.0.0.1", " ">>, <<"#", "10.0.0.2">>}

(* The texts in the order of Python's sorted(). *)
FpOrder == <<<<"#", "10.0.0.2">>, <<"10.0.0.1">>, <<"10.0.0.1", " ">>, <<"10.0.0.2">>>>

FpSaveOutcomes == {"saved", "open_raises", "write_raises"}

(* The three comment lines and the empty line save_false_positives writes. *)
FpHeader == << <<"#", "False positives list - one IP per line">>,
               <<"#", "Generated by Network Traffic Analyzer">>,
               <<"#", "Last updated: ">>,
               <<>> >>

(* sorted(self.false_positives) *)
SortedTexts(S) == LET Member(t) == t \in S IN SelectSeq(FpOrder, Member)

(* The file after save_false_positives: written in full, left as it was    *)
(* when open raises, cut after the header when a write raises; an          *)
(* exception is reported to the output window only.                        *)
SaveFalsePositives(S, file, outcome) ==
    CASE outcome = "saved" -> FpHeader \o SortedTexts(S)
      [] outcome = "open_raises" -> file
      [] outcome = "write_raises" -> FpHeader

RECURSIVE LStrip(_)
LStrip(line) == IF line # <<>> /\ Head(line) = " " THEN LStrip(Tail(line)) ELSE line

RECURSIVE RStrip(_)
RStrip(line) ==
    IF line # <<>> /\ line[Len(line)] = " " THEN RStrip(SubSeq(line, 1, Len(line) - 1)) ELSE line

(* line.strip() *)
Strip(line) == RStrip(LStrip(line))

(* if line and not line.startswith('#') *)
Kept(line) == line # <<>> /\ Head(line) # "#"

(* load_false_positives: the stripped lines that are neither empty nor     *)
(* comments.                                                               *)
LoadFalsePositives(file) ==
    {Strip(file[i]) : i \in {j \in 1..Len(file) : Kept(Strip(file[j]))}}

(* No file at the first start: load_false_positives returns the empty set. *)
InitFp ==
    /\ fp_file = <<>>
    /\ fp_saves = 0
    /\ fp_ops = 0

(* IPManager.mark_as_false_positive(ip): add and save. *)
MarkAsFalsePositiveSaving(ip, outcome) ==
    /\ fp_ops < MaxFpOps
    /\ fp_ops' = fp_ops + 1
    /\ IF ip # <<>>
       THEN /\ false_positives' = false_positives \cup {ip}
            /\ fp_file' = SaveFalsePositives(false_positives', fp_file, outcome)
            /\ fp_saves' = fp_saves + 1
       ELSE UNCHANGED <<false_positives, fp_file, fp_saves>>
    /\ UNCHANGED <<alerts_by_ip, enabled, gpc, gcur, nGuiClears,
                   sentIds, dedupHits, fpProduced, notified, am_alerts, handled>>

(* LiveCaptureGUI.remove_false_positive(listbox): discard the selected     *)
(* entry of the list and save.                                             *)
RemoveFalsePositive(ip, outcome) ==
    /\ fp_ops < MaxFpOps
    /\ fp_ops' = fp_ops + 1
    /\ ip \in false_positives
    /\ false_positives' = false_positives \ {ip}
    /\ fp_file' = SaveFalsePositives(false_positives', fp_file, outcome)
    /\ fp_saves' = fp_saves + 1
    /\ UNCHANGED <<alerts_by_ip, enabled, gpc, gcur, nGuiClears,
                   sentIds, dedupHits, fpProduced, notified, am_alerts, handled>>

-----------------------------------------------------------------------------
(* analyze_traffic with the enabled flags of its rules and its cursor      *)
(* (traffic_analyzer.py: LiveCaptureGUI.analyze_traffic, toggle_rule)      *)

InitEnabled ==
    /\ analysis_cursor = "none"
    /\ invoked = [i \in 1..Len(RuleList) |-> 0]

(* A loop that runs every rule, whatever its flag. *)
AlwaysEnabled(i) == TRUE

(* if rule.enabled, for the rule at position i of self.rules *)
RuleEnabled(i) == enabled[RuleList[i]]

(* analysis_cursor = self.db_manager.get_cursor_for_rules(), then the      *)
(* start of the loop.                                                      *)
AnalyzeTrafficStart ==
    /\ StartCycle
    /\ analysis_cursor' = "open"
    /\ invoked' = [i \in 1..Len(RuleList) |-> 0]

(* The turn of one rule: rule.analyze(analysis_cursor) when its flag is    *)
(* set.                                                                    *)
AnalyzeTrafficRule(outcome) ==
    /\ cycle_pc \in 1..Len(RuleList)
    /\ RunRule(RuleEnabled(cycle_pc), outcome)
    /\ invoked' = [invoked EXCEPT ![cycle_pc] = IF RuleEnabled(cycle_pc) THEN @ + 1 ELSE @]
    /\ UNCHANGED analysis_cursor

(* finally: analysis_cursor.close(), and the rest of analyze_traffic. *)
AnalyzeTrafficEnd(appended) ==
    /\ EndCycle(appended)
    /\ analysis_cursor' = "closed"
    /\ UNCHANGED invoked

-----------------------------------------------------------------------------
(* clear_alerts with a record of the alerts it was to clear *)

InitClear ==
    /\ before_clear = {}
    /\ clear_returned = FALSE

(* clear_alerts starts: the alert rows present in either store, then the   *)
(* DELETE and commit on the capture store.                                 *)
ClearAlertsStart ==
    /\ ClearCapture
    /\ before_clear' = cap["alerts"] \cup ana.rows["alerts"] \cup anaW.rows["alerts"]
    /\ clear_returned' = FALSE

(* DELETE FROM alerts on the analysis store. *)
ClearAlertsDelete ==
    /\ ClearAnalysisDelete
    /\ UNCHANGED <<before_clear, clear_returned>>

(* The commit on the analysis store; clear_alerts returns True. *)
ClearAlertsReturn ==
    /\ ClearAnalysisCommit
    /\ clear_returned' = TRUE
    /\ UNCHANGED before_clear

-----------------------------------------------------------------------------
(* The connections table under add_packet and add_app_protocol             *)
(* (database_manager.py)                                                   *)

(* Connection keys, by what add_app_protocol reads of them: the number of  *)
(* "->" in the text and the number of pieces ":" cuts each side into.      *)
PacketKeys ==
    { [text |-> "10.0.0.1:1234->10.0.0.2:80", arrows |-> 1, src_parts |-> 2, dst_parts |-> 2],
      [text |-> "unknown", arrows |-> 0, src_parts |-> 1, dst_parts |-> 0] }

PacketLengths == {60, 1500}

AppProtocols == {"HTTP", "TLS"}

NoRow == [present |-> FALSE]

(* A row of connections: the columns the two methods write. *)
ConnectionRow(total_bytes, count, protocol) ==
    [present |-> TRUE, total_bytes |-> total_bytes, packet_count |-> count,
     protocol |-> protocol]

InitPackets ==
    /\ conn_table = [key \in PacketKeys |-> NoRow]
    /\ pkt_calls = [key \in PacketKeys |-> 0]
    /\ pkt_bytes = [key \in PacketKeys |-> 0]
    /\ app_protocols = [key \in PacketKeys |-> "none"]
    /\ nPacketOps = 0

(* add_packet: UPDATE total_bytes and packet_count of the key's row, or,   *)
(* when no row was updated, INSERT one with the length and packet_count 1; *)
(* commit.                                                                 *)
AddPacket(key, length) ==
    /\ nPacketOps < MaxPacketOps
    /\ nPacketOps' = nPacketOps + 1
    /\ conn_table' = [conn_table EXCEPT ![key] =
           IF @.present
           THEN ConnectionRow(@.total_bytes + length, @.packet_count + 1, @.protocol)
           ELSE ConnectionRow(length, 1, "NULL")]
    /\ pkt_calls' = [pkt_calls EXCEPT ![key] = @ + 1]
    /\ pkt_bytes' = [pkt_bytes EXCEPT ![key] = @ + length]
    /\ UNCHANGED app_protocols

(* len(parts) == 2 and len(src_part) >= 2 and len(dst_part) >= 2 *)
KeyParses(key) == key.arrows = 1 /\ key.src_parts >= 2 /\ key.dst_parts >= 2

(* add_app_protocol: when the key has no row, one is inserted from the     *)
(* pieces of the key with total_bytes 0 and packet_count 1, or False is    *)
(* returned when the key does not parse; then the app_protocols row is     *)
(* replaced and the protocol column of the connections row is set.         *)
AddAppProtocol(key, app_protocol) ==
    /\ nPacketOps < MaxPacketOps
    /\ nPacketOps' = nPacketOps + 1
    /\ IF ~conn_table[key].present /\ ~KeyParses(key)
       THEN UNCHANGED <<conn_table, app_protocols>>
       ELSE /\ conn_table' = [conn_table EXCEPT ![key] =
                   IF @.present
                   THEN ConnectionRow(@.total_bytes, @.packet_count, app_protocol)
                   ELSE ConnectionRow(0, 1, app_protocol)]
            /\ app_protocols' = [app_protocols EXCEPT ![key] = app_protocol]
    /\ UNCHANGED <<pkt_calls, pkt_bytes>>

(* The state of the components added last, after construction. *)
InitLate ==
    InitLife /\ InitRule /\ InitTransfer /\ InitFp /\ InitEnabled /\ InitClear /\ InitPackets

-----------------------------------------------------------------------------
(* The synchronizer with its writers, with and without injected errors *)

SyncPass(p) ==
    \/ SyncAcquire(p)
    \/ SyncBegin(p)
    \/ SyncTable(p, {})
    \/ \E answered \in SUBSET anaW.rows["tls_connections"] : SyncResolve(p, answered)
    \/ SyncCommit(p)

SyncFault(p) ==
    \/ SyncTableError(p)
    \/ /\ spc[p] = "table"
       /\ \E failed \in (SUBSET cap[Head(todo[p])]) \ {{}} : SyncTable(p, failed)

CaptureWrite ==
    \/ InsertAlert
    \/ AddArpData
    \/ \E server_name \in {"null", "host"} : AddTlsConnection(server_name)

ClearAlerts ==
    \/ ClearCapture
    \/ ClearAnalysisDelete
    \/ ClearAnalysisCommit

Init == InitSync /\ InitQueue /\ InitAlert /\ InitDecoder /\ InitKey /\ InitTx /\ InitHealth /\ InitCycle /\ InitShut /\ InitAttr /\ InitRetry /\ InitLate

(* Passes, capture writes and injected errors: no clear_alerts. *)
NextSync ==
    \/ Tick(SyncInterval) /\ UNCHANGED <<queueVars, alertVars, decoderVars, extraVars>>
    \/ CaptureWrite /\ UNCHANGED <<queueVars, alertVars, decoderVars, extraVars>>
    \/ \E p \in SyncProcs : SyncPass(p) /\ UNCHANGED <<queueVars, alertVars, decoderVars, extraVars>>
    \/ \E p \in SyncProcs : SyncFault(p) /\ UNCHANGED <<queueVars, alertVars, decoderVars, extraVars>>

SpecSync == Init /\ [][NextSync]_vars

(* Passes that meet no error, with the periodic thread scheduled fairly. *)
NextSyncLive ==
    \/ Tick(SyncInterval) /\ UNCHANGED <<queueVars, alertVars, decoderVars, extraVars>>
    \/ InsertAlert /\ UNCHANGED <<queueVars, alertVars, decoderVars, extraVars>>
    \/ SyncPass("sync_thread") /\ UNCHANGED <<queueVars, alertVars, decoderVars, extraVars>>
    \/ SyncPass("on_demand") /\ UNCHANGED <<queueVars, alertVars, decoderVars, extraVars>>

SpecSyncLive ==
    /\ Init
    /\ [][NextSyncLive]_vars
    /\ WF_vars(SyncPass("sync_thread") /\ UNCHANGED <<queueVars, alertVars, decoderVars, extraVars>>)
    /\ WF_vars(SyncPass("on_demand") /\ UNCHANGED <<queueVars, alertVars, decoderVars, extraVars>>)

(* Both callers of sync_databases together with clear_alerts. *)
NextSyncConc ==
    \/ Tick(SyncInterval) /\ UNCHANGED <<queueVars, alertVars, decoderVars, extraVars>>
    \/ InsertAlert /\ UNCHANGED <<queueVars, alertVars, decoderVars, extraVars>>
    \/ ClearAlerts /\ UNCHANGED <<queueVars, alertVars, decoderVars, extraVars>>
    \/ \E p \in SyncProcs : SyncPass(p) /\ UNCHANGED <<queueVars, alertVars, decoderVars, extraVars>>
    \/ \E p \in SyncProcs : SyncCommitError(p) /\ UNCHANGED <<queueVars, alertVars, decoderVars, extraVars>>
    \/ \E p \in SyncProcs : SyncExcept(p) /\ UNCHANGED <<queueVars, alertVars, decoderVars, extraVars>>

SpecSyncConc == Init /\ [][NextSyncConc]_vars

(* The synchronizer started on a capture file that holds a legacy table    *)
(* with up to MaxLegacy rows, which the analysis file lacks.               *)
InitMigrate ==
    /\ \E n \in 0..MaxLegacy : InitStores({LegacyTable}, LegacyRows(n))
    /\ InitQueue /\ InitAlert /\ InitDecoder /\ InitKey /\ InitTx /\ InitHealth
    /\ InitCycle /\ InitShut /\ InitAttr /\ InitRetry /\ InitLate

(* The creation of a missing table during which an index statement raises. *)
SyncIndexError(p) ==
    /\ spc[p] = "table"
    /\ Head(todo[p]) \notin anaW.tabs
    /\ SyncTableWith(p, {}, TRUE)

NextMigrate ==
    \/ Tick(SyncInterval) /\ UNCHANGED <<queueVars, alertVars, decoderVars, extraVars>>
    \/ CaptureWrite /\ UNCHANGED <<queueVars, alertVars, decoderVars, extraVars>>
    \/ \E p \in SyncProcs : SyncPass(p) /\ UNCHANGED <<queueVars, alertVars, decoderVars, extraVars>>
    \/ \E p \in SyncProcs : SyncIndexError(p) /\ UNCHANGED <<queueVars, alertVars, decoderVars, extraVars>>
    \/ \E p \in SyncProcs : SyncFault(p) /\ UNCHANGED <<queueVars, alertVars, decoderVars, extraVars>>

SpecMigrate == InitMigrate /\ [][NextMigrate]_vars

(* Producers, the two workers, failing tasks and close(). *)
NextQueue ==
    \/ \E callback \in BOOLEAN : QueueQuery(callback) /\ UNCHANGED <<syncVars, alertVars, decoderVars, extraVars>>
    \/ \E ip \in {"10.0.0.1"} : \E m \in {"m1", "m2"} :
           QueueAlert(ip, m, "rule") /\ UNCHANGED <<syncVars, alertVars, decoderVars, extraVars>>
    \/ QueryWorker /\ UNCHANGED <<alertVars, decoderVars, extraVars>>
    \/ AlertWorker /\ UNCHANGED <<alertVars, decoderVars, extraVars>>
    \/ Close /\ UNCHANGED <<alertVars, decoderVars, keyVars, txVars, healthVars, cycleVars, moreVars>>
    \/ CloseReturn /\ UNCHANGED <<coreVars, keyVars, txVars, cycleVars, moreVars>>

SpecQueue ==
    /\ Init
    /\ [][NextQueue]_vars
    /\ WF_vars(CloseReturn /\ UNCHANGED <<coreVars, keyVars, txVars, cycleVars, moreVars>>)
    /\ WF_vars(QueryWorker /\ UNCHANGED <<alertVars, decoderVars, extraVars>>)
    /\ WF_vars(AlertWorker /\ UNCHANGED <<alertVars, decoderVars, extraVars>>)

(* Query tasks with and without callbacks, whose operations return        *)
(* different values or raise, and close().                                 *)
NextCallback ==
    \/ \E callback \in BOOLEAN : QueueQuery(callback) /\ UNCHANGED <<syncVars, alertVars, decoderVars, extraVars>>
    \/ QueryWorkerOn(Results) /\ UNCHANGED <<alertVars, decoderVars, extraVars>>
    \/ Close /\ UNCHANGED <<alertVars, decoderVars, keyVars, txVars, healthVars, cycleVars, moreVars>>

SpecCallback == Init /\ [][NextCallback]_vars

(* The periodic thread alone, second by second, with commits that fail. *)
NextRetry ==
    \/ Tick(PollInterval) /\ UNCHANGED <<queueVars, alertVars, decoderVars, keyVars, txVars, healthVars, cycleVars, shutVars, attrVars, retryVars, lateVars>>
    \/ InsertAlert /\ UNCHANGED <<queueVars, alertVars, decoderVars, keyVars, txVars, healthVars, cycleVars, shutVars, attrVars, retryVars, lateVars>>
    \/ SyncThreadPoll /\ UNCHANGED <<queueVars, alertVars, decoderVars, keyVars, txVars, healthVars, cycleVars, shutVars, attrVars, lateVars>>
    \/ SyncThreadPass /\ UNCHANGED <<queueVars, alertVars, decoderVars, keyVars, txVars, healthVars, cycleVars, shutVars, attrVars, lateVars>>
    \/ SyncThreadReturn /\ UNCHANGED <<queueVars, alertVars, decoderVars, keyVars, txVars, healthVars, cycleVars, shutVars, attrVars, lateVars>>

SpecRetry == Init /\ [][NextRetry]_vars

(* Alert texts of every shape reach the attribution. *)
NextAttr ==
    \E alert \in Texts :
        Attribute(alert) /\ UNCHANGED <<coreVars, keyVars, txVars, healthVars, cycleVars, shutVars, retryVars, lateVars>>

SpecAttr == Init /\ [][NextAttr]_vars

(* Analysis cycles of the capture thread, the operator's actions on the    *)
(* GUI thread, and the alert worker.                                       *)
NextAlert ==
    \/ \E rule \in Rules : \E alert \in Alerts :
           AnalyzeAlert(rule, alert) /\ UNCHANGED <<decoderVars, extraVars>>
    \/ AnalyzeAdd /\ UNCHANGED <<decoderVars, extraVars>>
    \/ AnalyzeQueue /\ UNCHANGED <<decoderVars, extraVars>>
    \/ \E rule \in Rules :
           /\ RuleAddAlert(rule, "10.0.0.1", Alert({}, <<"10.0.0.1">>))
           /\ UNCHANGED <<decoderVars, extraVars>>
    \/ \E ip \in IPs : MarkAsFalsePositive(ip) /\ UNCHANGED <<decoderVars, extraVars>>
    \/ GuiClearAlerts /\ UNCHANGED <<decoderVars, extraVars>>
    \/ AlertWorker /\ UNCHANGED <<alertVars, decoderVars, extraVars>>

SpecAlert == Init /\ [][NextAlert]_vars

(* The capture thread reading the feed; the operator starting and stopping *)
(* the capture.                                                            *)
NextDecoder ==
    \/ StartCapture /\ UNCHANGED <<syncVars, queueVars, alertVars, extraVars>>
    \/ StopCapture /\ UNCHANGED <<syncVars, queueVars, alertVars, extraVars>>
    \/ \E kind \in {"index"} \cup DataKinds : \E len \in IndexLens \cup DataLens :
       \E sampled \in BOOLEAN : \E hook_raises \in BOOLEAN :
           /\ ReadLine(kind, len, sampled, hook_raises)
           /\ UNCHANGED <<syncVars, queueVars, alertVars, extraVars>>
    \/ \E len \in JunkLens : ReadJunk(len) /\ UNCHANGED <<syncVars, queueVars, alertVars, extraVars>>

SpecDecoder == Init /\ [][NextDecoder]_vars

(* Callers that make and parse connection keys. *)
NextKey ==
    \/ \E src_ip \in Addresses : \E dst_ip \in Addresses :
       \E src_port \in Ports : \E dst_port \in Ports :
           /\ CreateKey(src_ip, dst_ip, src_port, dst_port)
           /\ UNCHANGED <<coreVars, txVars, healthVars, cycleVars, shutVars, moreVars>>
    \/ \E src_ip \in Addresses : \E dst_ip \in Addresses :
       \E src_port_str \in PortTexts : \E dst_port_str \in PortTexts :
           /\ StoredKey(src_ip, dst_ip, src_port_str, dst_port_str)
           /\ UNCHANGED <<coreVars, txVars, healthVars, cycleVars, shutVars, moreVars>>
    \/ ParseKey /\ UNCHANGED <<coreVars, txVars, healthVars, cycleVars, shutVars, moreVars>>

SpecKey == Init /\ [][NextKey]_vars

(* A thread that uses the transaction helper, and the other threads that   *)
(* write and commit on the same connection.                                *)
NextTx ==
    \/ TxEnter /\ UNCHANGED <<coreVars, keyVars, healthVars, cycleVars, shutVars, moreVars>>
    \/ TxWrite /\ UNCHANGED <<coreVars, keyVars, healthVars, cycleVars, shutVars, moreVars>>
    \/ \E raised \in BOOLEAN : TxExit(raised) /\ UNCHANGED <<coreVars, keyVars, healthVars, cycleVars, shutVars, moreVars>>
    \/ DirectWrite /\ UNCHANGED <<coreVars, keyVars, healthVars, cycleVars, shutVars, moreVars>>
    \/ CommitCapture /\ UNCHANGED <<coreVars, keyVars, healthVars, cycleVars, shutVars, moreVars>>

SpecTx == Init /\ [][NextTx]_vars

(* The health-check timer, connections going bad, and close(). *)
NextHealth ==
    \/ \E outcome \in [Stores -> UNION {Outcomes(store) : store \in Stores}] :
           /\ \A store \in Stores : outcome[store] \in Outcomes(store)
           /\ CheckConnectionHealth(outcome)
           /\ UNCHANGED <<coreVars, keyVars, txVars, cycleVars, shutVars, moreVars>>
    \/ \E store \in Stores : BreakConnection(store) /\ UNCHANGED <<coreVars, keyVars, txVars, cycleVars, shutVars, moreVars>>
    \/ Close /\ UNCHANGED <<alertVars, decoderVars, keyVars, txVars, healthVars, cycleVars, moreVars>>

SpecHealth == Init /\ [][NextHealth]_vars

(* Analyze cycles with rules that fail. *)
NextCycle ==
    \/ StartCycle /\ UNCHANGED <<coreVars, keyVars, txVars, healthVars, shutVars, moreVars>>
    \/ \E is_enabled \in BOOLEAN : \E outcome \in RuleOutcomes :
           RunRule(is_enabled, outcome) /\ UNCHANGED <<coreVars, keyVars, txVars, healthVars, shutVars, moreVars>>
    \/ \E appended \in BOOLEAN :
           EndCycle(appended) /\ UNCHANGED <<coreVars, keyVars, txVars, healthVars, shutVars, moreVars>>

SpecCycle == Init /\ [][NextCycle]_vars

(* Analyze cycles while time passes. *)
NextThrottle ==
    \/ TickWall /\ UNCHANGED <<coreVars, keyVars, txVars, healthVars, shutVars, moreVars>>
    \/ NextCycle

SpecThrottle == Init /\ [][NextThrottle]_vars

(* What the capture life leaves alone. *)
lifeRest == <<syncVars, queueVars, alertVars, keyVars, txVars, healthVars, cycleVars,
              shutVars, attrVars, retryVars, ruleVars, transferVars, fpVars, enabledVars,
              clearVars, packetVars>>

(* The operator starts and stops captures while the threads run. *)
NextLife ==
    \/ StartCaptureAgain /\ UNCHANGED <<syncVars, queueVars, alertVars, extraVars>>
    \/ StartCaptureThread /\ UNCHANGED lifeRest
    \/ StopCaptureFlag /\ UNCHANGED lifeRest
    \/ StopCaptureTerminate /\ UNCHANGED lifeRest
    \/ StopCaptureJoin /\ UNCHANGED lifeRest
    \/ \E k \in Threads : CaptureThread(k) /\ UNCHANGED lifeRest
    \/ \E k \in Threads : FeedEnds(k) /\ UNCHANGED lifeRest

SpecLife == Init /\ [][NextLife]_vars

(* Calls of InteractiveSessionRule.analyze while time passes. *)
NextRule ==
    \/ TickRule /\ UNCHANGED <<baseVars, lifeVars, transferVars, fpVars, enabledVars, clearVars,
                                       packetVars>>
    \/ \E available \in BOOLEAN : \E outcome \in BodyOutcomes :
           Analyze(available, outcome) /\ UNCHANGED <<baseVars, lifeVars, transferVars, fpVars, enabledVars, clearVars,
                                       packetVars>>

SpecRule == Init /\ [][NextRule]_vars

(* Calls of the large-transfer rule on any connections table. *)
NextTransfer ==
    \/ \E row \in {r \in TransferRows : r.src_ip # r.dst_ip} :
           ConnectionRowArrives(row) /\ UNCHANGED <<baseVars, lifeVars, ruleVars, fpVars, enabledVars, clearVars,
                         packetVars>>
    \/ \E raises \in BOOLEAN :
           LargeTransferAnalyze(raises) /\ UNCHANGED <<baseVars, lifeVars, ruleVars, fpVars, enabledVars, clearVars,
                         packetVars>>
    \/ \E param_name \in ParamNames : \E value \in ThresholdValues :
           LargeTransferUpdateParam(param_name, value)
               /\ UNCHANGED <<baseVars, lifeVars, ruleVars, fpVars, enabledVars, clearVars,
                         packetVars>>

SpecTransfer == Init /\ [][NextTransfer]_vars

fpRest == <<syncVars, queueVars, decoderVars, keyVars, txVars, healthVars, cycleVars,
            shutVars, attrVars, retryVars, lifeVars, ruleVars, transferVars, enabledVars,
            clearVars, packetVars>>

(* The operator marks and unmarks false positives. *)
NextFp ==
    \/ \E ip \in FpTexts : \E outcome \in FpSaveOutcomes :
           MarkAsFalsePositiveSaving(ip, outcome) /\ UNCHANGED fpRest
    \/ \E ip \in FpTexts : \E outcome \in FpSaveOutcomes :
           RemoveFalsePositive(ip, outcome) /\ UNCHANGED fpRest

SpecFp == Init /\ [][NextFp]_vars

enabledRest == <<keyVars, txVars, healthVars, shutVars, attrVars, retryVars,
                 lifeVars, ruleVars, transferVars, fpVars, clearVars, packetVars>>

(* Analysis cycles of the capture thread while the operator toggles rules. *)
NextEnabled ==
    \/ AnalyzeTrafficStart /\ UNCHANGED <<coreVars, enabledRest>>
    \/ \E outcome \in RuleOutcomes :
           AnalyzeTrafficRule(outcome) /\ UNCHANGED <<coreVars, enabledRest>>
    \/ \E appended \in BOOLEAN :
           AnalyzeTrafficEnd(appended) /\ UNCHANGED <<coreVars, enabledRest>>
    \/ \E rule \in LoadedRules :
           ToggleRule(rule) /\ UNCHANGED <<decoderVars, cycleVars, enabledVars, enabledRest>>

SpecEnabled == Init /\ [][NextEnabled]_vars

(* Health checks, connections going bad, and close() with its return. *)
NextAfterClose ==
    \/ \E outcome \in [Stores -> UNION {Outcomes(store) : store \in Stores}] :
           /\ \A store \in Stores : outcome[store] \in Outcomes(store)
           /\ CheckConnectionHealth(outcome)
           /\ UNCHANGED <<coreVars, keyVars, txVars, cycleVars, shutVars, moreVars>>
    \/ \E store \in Stores :
           BreakConnection(store)
               /\ UNCHANGED <<coreVars, keyVars, txVars, cycleVars, shutVars, moreVars>>
    \/ Close /\ UNCHANGED <<alertVars, decoderVars, keyVars, txVars, healthVars, cycleVars, moreVars>>
    \/ CloseReturn /\ UNCHANGED <<coreVars, keyVars, txVars, cycleVars, moreVars>>

SpecAfterClose == Init /\ [][NextAfterClose]_vars

clearRest == <<queueVars, alertVars, decoderVars, keyVars, txVars, healthVars, cycleVars,
               shutVars, attrVars, retryVars, lifeVars, ruleVars, transferVars, fpVars,
               enabledVars, packetVars>>

(* clear_alerts of the query worker among capture writes and sync passes   *)
(* of both callers, with passes that fail at their commit.                 *)
NextClear ==
    \/ Tick(SyncInterval) /\ UNCHANGED <<clearRest, clearVars>>
    \/ CaptureWrite /\ UNCHANGED <<clearRest, clearVars>>
    \/ ClearAlertsStart /\ UNCHANGED clearRest
    \/ ClearAlertsDelete /\ UNCHANGED clearRest
    \/ ClearAlertsReturn /\ UNCHANGED clearRest
    \/ \E p \in SyncProcs : SyncPass(p) /\ UNCHANGED <<clearRest, clearVars>>
    \/ \E p \in SyncProcs : SyncCommitError(p) /\ UNCHANGED <<clearRest, clearVars>>
    \/ \E p \in SyncProcs : SyncExcept(p) /\ UNCHANGED <<clearRest, clearVars>>

SpecClear == Init /\ [][NextClear]_vars

packetRest == <<coreVars, keyVars, txVars, healthVars, cycleVars, shutVars, attrVars,
                retryVars, lifeVars, ruleVars, transferVars, fpVars, enabledVars,
                clearVars>>

(* Calls of add_packet and add_app_protocol in any order. *)
NextPackets ==
    \/ \E key \in PacketKeys : \E length \in PacketLengths :
           AddPacket(key, length) /\ UNCHANGED packetRest
    \/ \E key \in PacketKeys : \E app_protocol \in AppProtocols :
           AddAppProtocol(key, app_protocol) /\ UNCHANGED packetRest

SpecPackets == Init /\ [][NextPackets]_vars

TypeOKSync ==
    /\ now \in StartTime..MaxTime
    /\ anaTxn \in BOOLEAN
    /\ sync_lock \in SyncProcs \cup {"free"}
    /\ \A p \in SyncProcs : spc[p] \in {"idle", "begin", "table", "resolve", "commit", "except"}
    /\ \A t \in Tables : Cardinality(Ids(cap[t])) = Cardinality(cap[t])
    /\ \A t \in Tables : Cardinality(Ids(ana.rows[t])) = Cardinality(ana.rows[t])

-----------------------------------------------------------------------------
(* Properties of the synchronizer *)

(* The pass of p ends with this step (commit or rollback done). *)
PassEnds(p) == spc[p] # "idle" /\ spc'[p] = "idle"

(* C1: pass atomicity.  When a pass that met an error on a row or a table  *)
(* ends, the committed analysis store is exactly what it was when the pass *)
(* began: nothing the pass wrote stays committed.                          *)
C1_PassAtomicity ==
    [][\A p \in SyncProcs :
          (PassEnds(p) /\ passErr[p]) => ana' = passSnap[p]]_vars

(* C2: eventual consistency.  Every row committed to the capture store's   *)
(* alerts table is eventually present in the analysis store, when passes   *)
(* keep running and meet no error.                                         *)
C2_EventualConsistency ==
    \A i \in 1..MaxRows :
        (i \in Ids(cap["alerts"])) ~> (i \in Ids(ana.rows["alerts"]))

(* The step of p is an error-free copy of table t, which exists in the     *)
(* analysis store and has rows in the capture store.                       *)
CopiesExisting(p, t) ==
    /\ SyncTable(p, {})
    /\ Head(todo[p]) = t
    /\ t \in anaW.tabs
    /\ cap[t] # {}

(* What C3 promises of a copy of table t with high-water mark tk. *)
CopiedAbove(p, t) ==
    LET tk == LastTimestamp(anaW.rows[t])
        newer == {r \in cap[t] : r.ts > tk}
    IN  /\ passWritten'[p] \ passWritten[p] = {<<t, r>> : r \in newer}
        /\ anaW'.rows[t] = {r \in anaW.rows[t] : r.id \notin Ids(newer)} \cup newer
        /\ LastTimestamp(anaW'.rows[t]) = Maximum(Timestamps(cap[t]))

SecondPassCommits(p) ==
    /\ SyncCommit(p)
    /\ settled
    /\ passClean[p]
    /\ ~passErr[p]

(* A row without its server_name. *)
Unnamed(rows) == {[id |-> r.id, ts |-> r.ts] : r \in rows}

InTransaction(q) == spc[q] \in {"table", "resolve", "commit"}

(* The step is a step of pass p on the analysis store: BEGIN, a table      *)
(* copy, the commit, or the rollback of the failure path.                  *)
StoreStep(p) ==
    /\ spc[p] \in {"begin", "table", "commit", "except"}
    /\ spc'[p] # spc[p] \/ todo'[p] # todo[p]

(* C5: passes are serialized.  No step of one pass on the analysis store   *)
(* happens while another pass is between its BEGIN and its commit.         *)
C5_Serialized ==
    [][\A p \in SyncProcs : \A q \in SyncProcs \ {p} :
          StoreStep(p) => ~InTransaction(q)]_vars

-----------------------------------------------------------------------------
(* Properties of the task queues *)

(* C6: each queued task is executed exactly once while its worker runs:    *)
(* never more than once, and, whatever tasks before it raised, eventually  *)
(* once unless the worker was told to stop.                                *)
C6_ExactlyOnce ==
    /\ [](\A i \in 1..MaxTasks : qruns[i] <= 1 /\ aruns[i] <= 1)
    /\ \A i \in 1..MaxTasks :
          /\ (nQueries >= i) ~> (qruns[i] = 1 \/ ~queue_running)
          /\ (nAlerts >= i) ~> (aruns[i] = 1 \/ ~alert_processor_running)

(* A task raised and a task queued after it was executed, on both queues. *)
C6_Witness ==
    /\ \E i \in qfailed : \E j \in qdone : i < j
    /\ \E i \in afailed : \E j \in adone : i < j

(* C7: each queue is FIFO with one consumer: a task is started only when   *)
(* every task queued before it is finished, and the alerts table holds the *)
(* alerts in the order of their queue_alert calls.                         *)
C7_Fifo ==
    /\ \A j \in 1..MaxTasks : \A i \in 1..(j - 1) :
          /\ qruns[j] > 0 => i \in qdone
          /\ aruns[j] > 0 => i \in adone
    /\ \A r1 \in cap["alerts"] : \A r2 \in cap["alerts"] :
          r1.id < r2.id <=> r1.val.id < r2.val.id

(* Two tasks waited in each queue together, and both were executed; both   *)
(* alerts are in the alerts table.                                         *)
C7_Witness ==
    /\ {1, 2} \subseteq qdone
    /\ Cardinality(cap["alerts"]) >= 2

-----------------------------------------------------------------------------
(* Properties of the alert pipeline *)

-----------------------------------------------------------------------------
(* Properties of the decoder *)

(* C10: every record of the feed is processed at most once, whatever the   *)
(* lengths of its lines; and after two record pairs of 100 and 200 bytes   *)
(* the connections row has total_bytes 300 and packet_count 2.             *)
C10_ProcessedOnce ==
    /\ \A rec \in 1..MaxPairs : nProcessed[rec] <= 1
    /\ (nRead = 4 /\ thread_exit = "no" /\ shapes[1] = "data" /\ shapes[2] = "data")
          => connections = [total_bytes |-> 300, packet_count |-> 2]

(* The records of the feed with both IP addresses that were decoded and    *)
(* handed to process_packet_ek at least once.                              *)
Decoded == {rec \in 1..MaxPairs : nProcessed[rec] >= 1 /\ shapes[rec] = "data"}

RECURSIVE SumLengths(_)
SumLengths(recs) ==
    IF recs = {} THEN 0
    ELSE LET rec == CHOOSE x \in recs : TRUE
         IN  PacketLength(rec) + SumLengths(recs \ {rec})

(* C11: connection record.  The connections row of the feed's key counts   *)
(* every decoded record exactly once: packet_count is the number of        *)
(* decoded records and total_bytes the sum of their lengths; and the two   *)
(* counters never decrease.                                                *)
C11_ConnectionRecord ==
    /\ [](connections.packet_count = Cardinality(Decoded))
    /\ [](connections.total_bytes = SumLengths(Decoded))
    /\ [][/\ connections'.packet_count >= connections.packet_count
          /\ connections'.total_bytes >= connections.total_bytes]_vars

(* The step reads a line that belongs to no record, no object is found in  *)
(* the buffer, and the buffer with the line is over the limit.             *)
JunkOverflows ==
    /\ nJunk' = nJunk + 1
    /\ \E len \in JunkLens :
          LET appended == Append(buffer, Line("junk", 0, len))
          IN  /\ extract_ek_objects(appended) = <<>>
              /\ BufLen(appended) > BufferLimit

(* The step reads the data line of a well-formed record and the loop is    *)
(* not left by an exception.                                               *)
ReadsWellFormed(rec) ==
    /\ nRead = 2 * rec - 1
    /\ nRead' = nRead + 1
    /\ shapes'[rec] \in {"data", "arp"}
    /\ thread_exit' = "no"

(* C12: buffer bound.  After every round of the loop the buffer holds at   *)
(* most BufferLimit characters; a line that yields no object and takes the *)
(* buffer over the limit empties the buffer; and every well-formed record  *)
(* read afterwards (or at any time) is handed to process_packet_ek in the  *)
(* round that reads its data line.                                         *)
C12_BufferBound ==
    /\ [](BufLen(buffer) <= BufferLimit)
    /\ [][JunkOverflows => buffer' = <<>>]_vars
    /\ [][\A rec \in 1..MaxPairs :
             ReadsWellFormed(rec) => nProcessed'[rec] >= nProcessed[rec] + 1]_vars

(* The buffer was reset, and a record pair read after the reset was        *)
(* processed.                                                              *)
C12_Witness ==
    /\ resetAt >= 0
    /\ thread_exit = "no"
    /\ \E rec \in 1..MaxPairs :
          /\ 2 * (rec - 1) >= resetAt
          /\ shapes[rec] = "data"
          /\ nProcessed[rec] >= 1

(* C13: a failure of the advanced-analysis hook does not affect decoding:  *)
(* the loop of capture_packets is never left because receive_packet_data   *)
(* raised.                                                                 *)
C13_HookIsolation == thread_exit # "hook"

(* C14: a malformed or unprocessable record never aborts the stream: the   *)
(* loop of capture_packets is never left because the handling of a record  *)
(* raised.                                                                 *)
C14_RecordIsolation == thread_exit # "record"

-----------------------------------------------------------------------------
(* Properties of connection keys *)

(* C15: key round-trip.  Parsing the key made from two addresses (IPv4 or  *)
(* IPv6) and two ports returns the same two addresses and the same two     *)
(* ports; a port text that is no number gives port 0, not an error.        *)
C15_KeyRoundTrip ==
    key_parsed # NoKey =>
        /\ ~key_parsed.result.none
        /\ key_parsed.result.src_ip = key_args.src_ip
        /\ key_parsed.result.dst_ip = key_args.dst_ip
        /\ IsInt(key_args.src_port_str) /\ IsInt(key_args.dst_port_str) =>
              /\ Str(key_parsed.result.src_port) = key_args.src_port_str
              /\ Str(key_parsed.result.dst_port) = key_args.dst_port_str
        /\ ~IsInt(key_args.src_port_str) => key_parsed.result.src_port = 0
        /\ ~IsInt(key_args.dst_port_str) => key_parsed.result.dst_port = 0

(* A key of an IPv6 source with port 65535 and an IPv4 destination was     *)
(* parsed.                                                                 *)
C15_Witness ==
    /\ key_parsed # NoKey
    /\ Contains(key_args.src_ip, ":")
    /\ ~Contains(key_args.dst_ip, ":")
    /\ key_args.src_port_str = Str(65535)
    /\ key_parsed.result.src_port = 65535

-----------------------------------------------------------------------------
(* Properties of the transaction helper *)

(* C16: transaction helper.  When a scope that began the transaction is    *)
(* left, every write made in the scope is committed if the body left       *)
(* cleanly and none of them is committed if the body raised; the cursor is *)
(* closed; and the body's exception is passed on.                          *)
C16_TransactionScope ==
    [][(tc_pc = "body" /\ tc_pc' = "out" /\ transaction_active) =>
          /\ ~cursor'
          /\ IF propagated'
             THEN scope_writes \cap conn_rows' = {}
             ELSE scope_writes \subseteq conn_rows']_vars

-----------------------------------------------------------------------------
(* Properties of connection health *)

(* The step is a run of check_connection_health. *)
HealthChecked == nChecks' = nChecks + 1

(* The handle of store names a new connection with the store's settings. *)
Replaced(store) ==
    /\ conn_handle'[store].gen = conn_handle[store].gen + 1
    /\ conn_handle'[store].valid
    /\ conn_handle'[store].pragmas = Pragmas(store)

-----------------------------------------------------------------------------
(* Properties of the analyze cycle *)

(* C18: rule isolation.  Whatever a rule's analyze or the handling of its  *)
(* alerts raised, every rule before the loop's position has had its turn   *)
(* in this cycle (it was invoked, or skipped as disabled), and the cycle   *)
(* reaches the end of the loop only after every rule has had its turn.     *)
C18_RuleIsolation ==
    \A i \in 1..Len(RuleList) :
        (cycle_pc > i) => results[i] # "idle"

(* A cycle is complete in which the first rule's analyze raised, the       *)
(* handling of the second rule's alerts raised, and the third rule's       *)
(* alerts were handled.                                                    *)
C18_Witness ==
    /\ cycle_pc = Len(RuleList) + 1
    /\ results = <<"analyze_raises", "handling_raises", "alerts">>

-----------------------------------------------------------------------------
(* Properties of close() *)

(* C19: cooperative shutdown.  close() clears the running flags and        *)
(* returns once its bounded joins are over, whatever the workers do; and   *)
(* a task that was in a queue when close() cleared the flags is never      *)
(* executed afterwards.                                                    *)
C19_CooperativeShutdown ==
    /\ [](close_pc # "open" => ~queue_running /\ ~alert_processor_running)
    /\ (close_pc = "joining") ~> (close_pc = "returned")
    /\ [](/\ \A i \in left_queued.query : qruns[i] = 0 /\ (qcur.id # i)
          /\ \A i \in left_queued.alert : aruns[i] = 0 /\ (acur.id # i))

-----------------------------------------------------------------------------
(* Properties of the query callback *)

(* C20: query-queue callback.  A finished task whose operation returned    *)
(* and that was queued with a callback has had its callback called exactly *)
(* once, with the value the operation returned; a task whose operation     *)
(* raised, or that has no callback, or that is not finished, has had no    *)
(* callback called.                                                        *)
C20_QueryCallback ==
    \A i \in 1..MaxTasks :
        qlog[i].called =
            IF i \in qdone /\ qlog[i].callback /\ qlog[i].returned \in Results
            THEN <<qlog[i].returned>>
            ELSE <<>>

(* Two tasks with callbacks are finished: the operation of the first       *)
(* returned and its callback got the value, the operation of the second    *)
(* raised.                                                                 *)
C20_Witness ==
    /\ {1, 2} \subseteq qdone
    /\ qlog[1] = [callback |-> TRUE, returned |-> "count", called |-> <<"count">>]
    /\ qlog[2] = [callback |-> TRUE, returned |-> "raised", called |-> <<>>]

-----------------------------------------------------------------------------
(* Properties of the analysis store's writers *)

(* C21: single writer.  Every step that changes the analysis store (its    *)
(* committed rows, the rows seen through analysis_conn, or its open        *)
(* transaction) is a step of a sync pass.                                  *)
C21_SingleWriter ==
    [][(ana' # ana \/ anaW' # anaW \/ anaTxn' # anaTxn) =>
          \E p \in SyncProcs : spc'[p] # spc[p] \/ todo'[p] # todo[p]]_vars

-----------------------------------------------------------------------------
(* Properties of the producers *)

(* C22: enqueue never blocks and never loses a task.  queue_alert and      *)
(* queue_query can be called in every state, whatever the queues hold and  *)
(* wherever the workers are (up to the number of tasks the model queues);  *)
(* and every alert queued is eventually taken by the alert worker and its  *)
(* insert attempted, unless the worker was told to stop.                   *)
C22_EnqueueNeverBlocks ==
    /\ [](nAlerts < MaxTasks =>
             ENABLED (QueueAlert("10.0.0.1", "m1", "rule")
                      /\ UNCHANGED <<syncVars, alertVars, decoderVars, extraVars>>))
    /\ [](nQueries < MaxTasks =>
             ENABLED (QueueQuery(TRUE)
                      /\ UNCHANGED <<syncVars, alertVars, decoderVars, extraVars>>))
    /\ \A i \in 1..MaxTasks :
          (nAlerts >= i) ~> (aruns[i] >= 1 \/ ~alert_processor_running)

(* Two alerts were queued and taken, and the insert of each was attempted  *)
(* (the first raised), with the worker still running.                      *)
C22_Witness ==
    /\ adone = {1, 2}
    /\ 1 \in afailed
    /\ alert_processor_running

-----------------------------------------------------------------------------
(* Properties of nested transaction scopes *)

(* C23: nested use.  A scope entered while a transaction is open on the    *)
(* connection begins none: the open transaction and its pending writes     *)
(* stay as they are and the scope is marked as not owning it; and the exit *)
(* of such a scope, clean or with an exception, neither commits nor rolls  *)
(* back: the committed rows, the pending writes (the scope's own among     *)
(* them) and the open transaction are left to whoever commits or rolls     *)
(* back the outer transaction.                                             *)
C23_NestedScope ==
    /\ [][(tc_pc = "out" /\ tc_pc' = "body" /\ in_transaction) =>
             /\ ~transaction_active'
             /\ in_transaction'
             /\ UNCHANGED <<conn_rows, conn_pending>>]_vars
    /\ [][(tc_pc = "body" /\ tc_pc' = "out" /\ ~transaction_active) =>
             UNCHANGED <<conn_rows, conn_pending, in_transaction>>]_vars

(* A scope entered inside an open transaction wrote, its body raised, and  *)
(* after its exit its writes are still pending in the outer transaction.   *)
C23_Witness ==
    /\ tc_pc = "out"
    /\ ~transaction_active
    /\ propagated
    /\ scope_writes # {}
    /\ scope_writes \subseteq conn_pending
    /\ in_transaction

-----------------------------------------------------------------------------
(* Properties of the attribution *)

(* C24: offending-address attribution.  With two or more addresses in the  *)
(* text the attributed one is the second if the text contains "Malicious   *)
(* IP detected in connection from", else the first if it contains "from    *)
(* Malicious IP" or "from suspicious IP", else the second if it contains   *)
(* "VirusTotal", else the first; with one address it is that address; with *)
(* none, no address is attributed.                                         *)
C24_Attribution ==
    attributed.done =>
        LET text == attributed.alert
            has(phrase) == phrase \in text.phrases
            found == text.ips
        IN  /\ Len(found) = 0 => attributed.ip = "None"
            /\ Len(found) = 1 => attributed.ip = found[1]
            /\ Len(found) >= 2 =>
                  /\ has("Malicious IP detected in connection from")
                        => attributed.ip = found[2]
                  /\ (/\ ~has("Malicious IP detected in connection from")
                      /\ has("from Malicious IP") \/ has("from suspicious IP"))
                        => attributed.ip = found[1]
                  /\ (/\ ~has("Malicious IP detected in connection from")
                      /\ ~has("from Malicious IP") /\ ~has("from suspicious IP")
                      /\ has("VirusTotal"))
                        => attributed.ip = found[2]
                  /\ text.phrases = {} => attributed.ip = found[1]

(* A text with "from suspicious IP" and "VirusTotal" and three addresses   *)
(* was attributed to its first address.                                    *)
C24_Witness ==
    /\ attributed.done
    /\ attributed.alert.phrases = {"from suspicious IP", "VirusTotal"}
    /\ attributed.alert.ips = <<"10.0.0.2", "10.0.0.1", "10.0.0.1">>
    /\ attributed.ip = "10.0.0.2"

-----------------------------------------------------------------------------
(* Properties of the handling of one alert *)

(* The step is the decision of analyze_traffic on an alert a rule returned. *)
Decides == handled'.tick # handled.tick

(* The conditions under which the alert decided on is to be sent. *)
ToBeSent ==
    LET alert == handled'.alert
        ip == MaliciousIp(alert)
    IN  /\ ip # "None"
        /\ ip \notin false_positives
        /\ alert \notin alerts_by_ip[ip]

(* C25: alert pipeline decision.  The handling goes on to record and       *)
(* enqueue the alert exactly when an address was attributed, the address   *)
(* is not marked false positive and the text is not in that address's      *)
(* dedup set; then the text joins that set and the alert joins the queue's *)
(* tail; in every other case the dedup sets, the queue and the             *)
(* notifications stay as they are; and a notification is made only in the  *)
(* step that enqueues the alert, for that alert.                           *)
C25_PipelineDecision ==
    /\ [][Decides =>
             /\ (gpc' = "add") <=> ToBeSent
             /\ gpc' = "add" =>
                   gcur' = [ip |-> MaliciousIp(handled'.alert), alert |-> handled'.alert,
                            rule |-> gcur'.rule]
             /\ UNCHANGED <<alerts_by_ip, alert_queue, notified>>]_vars
    /\ [][(gpc = "add" /\ gpc' # "add") =>
             /\ gpc' = "queue"
             /\ alerts_by_ip' = [alerts_by_ip EXCEPT ![gcur.ip] = @ \cup {gcur.alert}]
             /\ UNCHANGED <<alert_queue, notified>>]_vars
    /\ [][(gpc = "queue" /\ gpc' # "queue") =>
             /\ Len(alert_queue') = Len(alert_queue) + 1
             /\ alert_queue'[Len(alert_queue')].ip = gcur.ip
             /\ alert_queue'[Len(alert_queue')].msg = gcur.alert
             /\ notified' \subseteq notified \cup {alert_queue'[Len(alert_queue')].id}
             /\ UNCHANGED alerts_by_ip]_vars
    /\ [][(\E ip \in IPs : ~(alerts_by_ip'[ip] \subseteq alerts_by_ip[ip])) => gpc = "add"]_vars
    /\ [][notified' # notified => gpc = "queue"]_vars

(* One alert was recorded and enqueued; the alert decided on last is       *)
(* attributed to an address marked false positive, was dropped, and is     *)
(* not in that address's dedup set.                                        *)
C25_Witness ==
    /\ gpc = "idle"
    /\ \E pr \in Pairs : sentIds[pr] # {}
    /\ MaliciousIp(handled.alert) \in false_positives
    /\ handled.alert \notin alerts_by_ip[MaliciousIp(handled.alert)]
    /\ nGuiClears = 0

-----------------------------------------------------------------------------
(* Properties of the periodic thread *)

(* C26: retry of a failed pass.  The periodic pass that follows a failed   *)
(* one starts no sooner than one sync interval after the failed pass       *)
(* started; and last_sync_time changes only in the step that commits a     *)
(* pass.                                                                   *)
C26_RetryAtNextInterval ==
    /\ [][(spc["sync_thread"] = "idle" /\ spc'["sync_thread"] = "begin" /\ failed_at >= 0) =>
             now - failed_at >= SyncInterval]_vars
    /\ [][last_sync_time' # last_sync_time =>
             \E p \in SyncProcs : spc[p] = "commit" /\ spc'[p] = "idle"]_vars

-----------------------------------------------------------------------------
(* Properties of the row scope and of the schema migration of a pass *)

(* The step of p is an error-free iteration of the loop on table t. *)
Copies(p, t) ==
    /\ spc[p] = "table"
    /\ Head(todo[p]) = t
    /\ \E index_raises \in BOOLEAN : SyncTableWith(p, {}, index_raises)

(* Table t is one that C27 says is copied in full: it has no timestamp     *)
(* column, or the pass creates it, or it is empty in the destination.      *)
InFullScope(t) ==
    \/ ~HasTimestamp(t)
    \/ t \notin anaW.tabs
    \/ anaW.rows[t] = {}

-----------------------------------------------------------------------------
(* Properties of the full-replace table *)

(* The rows of table t that the pass of p has written. *)
WrittenTo(p, t) == {r \in anaW.rows[t] : <<t, r>> \in passWritten[p]}

-----------------------------------------------------------------------------
(* Properties of the display-refresh throttle *)

(* C30: display-refresh throttle.  Any two refreshes of the alert displays *)
(* made by analyze_traffic are at least MinUpdateInterval seconds apart,   *)
(* and a refresh is made only by a cycle in which a rule returned alerts.  *)
C30_RefreshThrottle ==
    /\ [](\A i \in 1..Len(refreshes) : \A j \in 1..Len(refreshes) :
             i < j => refreshes[j] - refreshes[i] >= MinUpdateInterval)
    /\ [][Len(refreshes') > Len(refreshes) => ReturnedAlerts]_vars

-----------------------------------------------------------------------------
(* Properties of the capture life *)

(* A thread is started in this step. *)
ThreadStarts == \E k \in Threads : tpos[k] = "none" /\ tpos'[k] # "none"

(* stop_capture returns in this step. *)
StopReturns == stop_pc = "join" /\ stop_pc' = "idle"

(* C31: capture start/stop.  A thread is started only by start_capture     *)
(* while the running flag is clear, so at most one per start/stop cycle;   *)
(* stop_capture clears the flag, its join always returns, and when it      *)
(* returns no capture subprocess is running; a thread that has ended and a *)
(* subprocess that has ended stay ended.                                   *)
C31_CaptureStartStop ==
    /\ [](cycle_starts <= 1)
    /\ [][ThreadStarts => ~running /\ running' /\ stop_pc = "idle"]_vars
    /\ [][(stop_pc = "idle" /\ stop_pc' # "idle") => ~running']_vars
    /\ [](stop_pc = "join" => ENABLED (StopCaptureJoin /\ UNCHANGED lifeRest))
    /\ [][StopReturns => \A k \in Threads : proc'[k] # "running"]_vars
    /\ [][\A k \in Threads :
             /\ tpos[k] = "done" => tpos'[k] = "done"
             /\ proc[k] \in {"terminated", "dead"} => proc'[k] = proc[k]]_vars

(* C39: a thread terminates only its own subprocess.  The cleanup of a     *)
(* thread finds the handle empty or naming the subprocess the thread       *)
(* started, and at most one thread is reading a feed at any time.          *)
C39_OwnSubprocess ==
    /\ [][\A k \in Threads :
             (tpos[k] = "finally" /\ tpos'[k] = "done") => tshark_process \in {0, k}]_vars
    /\ [](Cardinality({k \in Threads : tpos[k] = "reading"}) <= 1)

-----------------------------------------------------------------------------
(* Properties of the rule throttle *)

(* The step is a call of analyze. *)
AnalyzeCalled == nCalls' = nCalls + 1

(* C32: rule self-throttle.  A call of analyze made less than              *)
(* CheckInterval seconds after the call that last passed the throttle      *)
(* returns an empty list, issues no query and leaves last_check_time as it *)
(* is; last_check_time changes only in a call that passes the throttle,    *)
(* which sets it to the time of the call and issues the query, also when   *)
(* the body of that call raises.                                           *)
C32_RuleThrottle ==
    /\ [][(AnalyzeCalled /\ passed.at >= 0 /\ rule_time - passed.at < CheckInterval) =>
             /\ rule_ret' = "empty"
             /\ issued' = issued
             /\ last_check_time' = last_check_time]_vars
    /\ [][last_check_time' # last_check_time =>
             /\ AnalyzeCalled
             /\ passed.at < 0 \/ rule_time - passed.at >= CheckInterval
             /\ last_check_time' = rule_time
             /\ issued' = issued + 1]_vars
    /\ [][(AnalyzeCalled /\ rule_ret' = "error") =>
             /\ last_check_time' = rule_time
             /\ passed'.at = rule_time]_vars
    /\ [][issued' # issued => last_check_time' = rule_time /\ AnalyzeCalled]_vars

(* A call passed the throttle and raised; a later call, made after time    *)
(* had passed but less than CheckInterval, has returned an empty list      *)
(* without a query.                                                        *)
C32_Witness ==
    /\ passed.outcome = "raises"
    /\ rule_ret = "empty"
    /\ rule_time > passed.at
    /\ rule_time - passed.at < CheckInterval
    /\ last_check_time = passed.at
    /\ issued = 1
    /\ nCalls >= 2

-----------------------------------------------------------------------------
(* Properties of the large-transfer rule *)

(* The rows of the table above the threshold in force. *)
LargeIdx == {i \in 1..Len(lt_rows) : lt_rows[i].total_bytes > threshold_kb * 1024}

(* The alerts returned by this step are one for each row above the         *)
(* threshold, naming its two addresses, and no other.                      *)
OneAlertPerLargeRow ==
    /\ Len(lt_alerts') = Cardinality(LargeIdx)
    /\ \E f \in [1..Len(lt_alerts') -> LargeIdx] :
           /\ \A i, j \in 1..Len(lt_alerts') : f[i] = f[j] => i = j
           /\ \A i \in 1..Len(lt_alerts') :
                  /\ lt_alerts'[i].src_ip = lt_rows[f[i]].src_ip
                  /\ lt_alerts'[i].dst_ip = lt_rows[f[i]].dst_ip
    /\ (threshold_kb = 5000 /\ Len(lt_rows) = 1 /\ lt_rows[1].total_bytes = 6000000)
           => Len(lt_alerts') = 1 /\ lt_alerts'[1].mb = 572
    /\ (threshold_kb = 5000 /\ Len(lt_rows) = 1 /\ lt_rows[1].total_bytes = 5120000)
           => lt_alerts' = <<>>

(* update_param sets the threshold for its name only. *)
UpdateParamSets ==
    /\ [][(lt_op' = "update_param" /\ lt_calls' # lt_calls) =>
             \/ lt_ret' = "True" /\ threshold_kb' \in ThresholdValues
             \/ lt_ret' = "False" /\ threshold_kb' = threshold_kb]_vars
    /\ [][threshold_kb' # threshold_kb => lt_op' = "update_param" /\ lt_ret' = "True"]_vars
    /\ [][(lt_op' = "update_param" /\ lt_calls' # lt_calls) =>
             UNCHANGED <<lt_rows, lt_alerts>>]_vars

-----------------------------------------------------------------------------
(* Properties of the false-positive file *)

(* C34: false-positive list persistence round-trips.  After any sequence   *)
(* of mark_as_false_positive and remove_false_positive the set loaded from *)
(* the file, ignoring blank lines and lines beginning with #, equals the   *)
(* set in memory; and every step that changes the set saves.               *)
C34_RoundTrip ==
    /\ [](LoadFalsePositives(fp_file) = false_positives)
    /\ [][false_positives' # false_positives => fp_saves' = fp_saves + 1]_vars

-----------------------------------------------------------------------------
(* Properties of the enabled flags *)

(* C35: only enabled rules run.  In a cycle analyze is invoked at most     *)
(* once on each rule and only on a rule whose enabled flag is set at its   *)
(* turn; a toggle changes the flag of the named rule and no other; and the *)
(* cursor taken for the cycle is open during the cycle and closed when the *)
(* cycle has ended, also when a rule raised.                               *)
C35_OnlyEnabledRun ==
    /\ [](\A i \in 1..Len(RuleList) : invoked[i] <= 1)
    /\ [][\A i \in 1..Len(RuleList) :
             invoked'[i] > invoked[i] => enabled[RuleList[i]] /\ cycle_pc = i]_vars
    /\ [](\A i \in 1..Len(RuleList) : results[i] = "skipped" => invoked[i] = 0)
    /\ [][\A r \in LoadedRules : enabled'[r] # enabled[r] =>
             /\ \A q \in DOMAIN enabled : q # r => enabled'[q] = enabled[q]
             /\ UNCHANGED <<cycle_pc, results, invoked, analysis_cursor>>]_vars
    /\ [](cycle_pc # 0 => analysis_cursor = "open")
    /\ []((cycle_pc = 0 /\ nCycles > 0) => analysis_cursor = "closed")

(* A cycle has ended with its cursor closed in which one rule raised, one  *)
(* was disabled and skipped, and one ran after the rule that raised.       *)
C35_Witness ==
    /\ cycle_pc = 0
    /\ nCycles > 0
    /\ analysis_cursor = "closed"
    /\ results[1] = "analyze_raises" /\ invoked[1] = 1
    /\ results[2] = "skipped" /\ invoked[2] = 0 /\ ~enabled[RuleList[2]]
    /\ results[3] = "alerts" /\ invoked[3] = 1

-----------------------------------------------------------------------------
(* Properties of the connections after close() *)

(* C36: no store connection is opened after shutdown.  Once close() has    *)
(* returned no step replaces the connection of a store by a new one or     *)
(* makes a closed connection usable, and a health check that runs then     *)
(* schedules no further check, after which none is pending any more.       *)
C36_NoConnectionAfterClose ==
    /\ [][close_pc = "returned" =>
             \A store \in Stores :
                 /\ conn_handle'[store].gen = conn_handle[store].gen
                 /\ ~conn_handle'[store].valid]_vars
    /\ [][(close_pc = "returned" /\ HealthChecked) => ~timer_pending']_vars
    /\ [][(close_pc = "returned" /\ ~timer_pending) => ~timer_pending']_vars

-----------------------------------------------------------------------------
(* Properties of clear_alerts beside a sync pass *)

(* The step is the commit of clear_alerts on the analysis store. *)
ClearCommits == cpc = "commit" /\ cpc' = "idle"

(* C37: clearing alerts is not undone by a concurrent sync pass.  Once     *)
(* clear_alerts has returned True, no alert row that was in a store when   *)
(* the clear started is in the alerts table of the analysis store; and the *)
(* commit of clear_alerts publishes no change to any other table, that is, *)
(* nothing an unfinished sync pass has written.                            *)
C37_ClearNotUndone ==
    /\ [](clear_returned =>
             (ana.rows["alerts"] \cup anaW.rows["alerts"]) \cap before_clear = {})
    /\ [][ClearCommits =>
             /\ \A t \in Tables \ {"alerts"} : ana'.rows[t] = ana.rows[t]
             /\ ana'.rows["alerts"] \subseteq ana.rows["alerts"]]_vars

-----------------------------------------------------------------------------
(* Properties of transaction scopes beside other threads *)

(* C38: transaction scopes on the shared capture connection are isolated   *)
(* across threads.  No write of a scope whose body raised is ever          *)
(* committed, whatever commits other threads issue on the connection while *)
(* the scope is open; and leaving a scope discards no pending write that   *)
(* another thread made.                                                    *)
C38_ScopeIsolation ==
    /\ [](propagated => scope_writes \cap conn_rows = {})
    /\ [][(tc_pc = "body" /\ tc_pc' = "out") =>
             (conn_pending \ scope_writes) \subseteq (conn_pending' \cup conn_rows')]_vars

-----------------------------------------------------------------------------
(* Properties of the packet counters *)

(* C40: packet_count counts packets.  After any sequence of add_packet and *)
(* add_app_protocol calls, the row of a key has packet_count equal to the  *)
(* number of add_packet calls for the key and total_bytes equal to the sum *)
(* of their lengths; and a step that leaves the number of add_packet calls *)
(* as it is changes no counter of a row.                                   *)
C40_PacketCount ==
    /\ [](\A key \in PacketKeys :
             conn_table[key].present =>
                 /\ conn_table[key].packet_count = pkt_calls[key]
                 /\ conn_table[key].total_bytes = pkt_bytes[key])
    /\ [][\A key \in PacketKeys :
             (pkt_calls'[key] = pkt_calls[key] /\ conn_table[key].present) =>
                 /\ conn_table'[key].packet_count = conn_table[key].packet_count
                 /\ conn_table'[key].total_bytes = conn_table[key].total_bytes]_vars

====
